---- MODULE Spec2Model ----
(***************************************************************************)
(* A model of pyfreesurfer: the shell-environment parser and merger        *)
(* (configuration.py), the external command wrapper (wrapper.py) and the   *)
(* domain functions that validate their inputs and run FreeSurfer commands *)
(* through the wrapper.                                                    *)
(*                                                                         *)
(* Python strings are TLA+ strings; a text that the code scans (a          *)
(* subprocess output, a version file) is a sequence of tokens, each token  *)
(* an atomic piece of text, so that splitting, replacing and matching are  *)
(* computed on it as the code computes them.  None is <<>> and a present   *)
(* value v is <<v>>.  A dict is a function whose DOMAIN is its key set.    *)
(***************************************************************************)
EXTENDS Integers, Sequences, FiniteSets, TLC

VARIABLES
    \* configuration.environment called on its own
    stdout,        \* what the subshell printed (token sequence)
    environ_ret,   \* <<mapping>> once environment() has returned, else <<>>
    environ_exc,   \* <<exception>> once environment() has raised, else <<>>
    \* configuration.concat_environment called on its own
    heap,          \* the dict objects, by reference name
    concat_ret,    \* <<reference>> returned by the last concat_environment call
    ncalls,        \* number of concat_environment calls made so far
    before,        \* the dict objects as they were before the last call
    \* the two groupings of three merges
    abc,           \* the three input mappings
    lhs,           \* [stage, val]: (a merged with b) merged with c
    rhs,           \* [stage, val]: a merged with (b merged with c)
    \* the Python process that builds and runs wrappers
    os_environ,    \* os.environ, a dict
    links,         \* the symbolic links of the file system (paths)
    fsfiles,       \* the files and directories the functions move, make or
                   \* remove: [dir, name] for the entry name of dir
    cwd,           \* the working directory of the process
    wrapper,       \* <<the FSWrapper object built last>>, else <<>>
    call,          \* <<[fn, args]>>: the top-level call running or run last
                   \* (a domain function also keeps environ, links and
                   \* cwd: os.environ, the links and the working directory
                   \* it was called with)
    frame,         \* <<locals of the running function>>, else <<>>
    raised,        \* <<exception>> the last top-level call ended with
    result,        \* <<value>> the last top-level call returned
    spawned,       \* the processes spawned by the current top-level call
    nops,          \* top-level calls made so far
    nreads,        \* reads of a build-stamp file so far
    nwarn,         \* calls of warnings.warn so far
    base_env       \* <<dict>> returned by the last FSWrapper._environment

procVars == <<os_environ, links, fsfiles, cwd, wrapper, call, frame, raised,
              result, spawned, nops, nreads, nwarn, base_env>>

vars == <<stdout, environ_ret, environ_exc, heap, concat_ret, ncalls, before,
          abc, lhs, rhs, procVars>>

None == <<>>
Some(x) == <<x>>

----------------------------------------------------------------------------
(* Bounds of the model *)

MaxStdoutLen == 5
MaxValLen == 2
MaxConcatCalls == 2
MaxOps == 2
MaxVert == 4
MaxTri == 2

----------------------------------------------------------------------------
(* Text helpers *)

\* tokens matched by \w+ ; every other token but the blanks is non-blank and
\* not a word (=, ', :, /...)
WordToks == {"export", "PWD", "A", "FREESURFER_HOME", "PATH", "SUBJECTS_DIR"}
IsWord(t) == t \in WordToks
IsSpace(t) == t \in {" ", "\n"}

RECURSIVE Flatten(_)
Flatten(s) == IF s = <<>> THEN "" ELSE s[1] \o Flatten(Tail(s))

\* all token sequences of length at most n over the tokens toks
RECURSIVE SeqsUpTo(_, _)
SeqsUpTo(toks, n) ==
    IF n = 0 THEN {<<>>}
    ELSE LET shorter == SeqsUpTo(toks, n - 1)
         IN shorter \cup {Append(s, t) : s \in shorter, t \in toks}

\* all strings of length at most n over the one-character strings chars
RECURSIVE StrsUpTo(_, _)
StrsUpTo(chars, n) ==
    IF n = 0 THEN {""}
    ELSE LET shorter == StrsUpTo(chars, n - 1)
         IN shorter \cup {s \o c : s \in shorter, c \in chars}

\* stdout.split(os.linesep)
RECURSIVE str_split(_)
str_split(s) ==
    LET seps == {i \in 1..Len(s) : s[i] = "\n"}
    IN IF seps = {} THEN <<s>>
       ELSE LET i == CHOOSE j \in seps : \A k \in seps : j <= k
            IN <<SubSeq(s, 1, i - 1)>> \o str_split(SubSeq(s, i + 1, Len(s)))

\* line.replace("export ", "")
RECURSIVE replace_export(_)
replace_export(s) ==
    IF Len(s) < 2 THEN s
    ELSE IF s[1] = "export" /\ s[2] = " "
         THEN replace_export(SubSeq(s, 3, Len(s)))
         ELSE <<s[1]>> \o replace_export(Tail(s))

\* line.replace("'", "")
replace_quote(s) == SelectSeq(s, LAMBDA t : t # "'")

\* the rewriting of a line that starts with "export"
normalise_line(line) ==
    IF Len(line) > 0 /\ line[1] = "export"
    THEN replace_quote(replace_export(line))
    ELSE line

\* re.match(r"^(\w+)=(\S*)$", line): <<[name, value]>> or None
re_match(line) ==
    LET eqs == {i \in 1..Len(line) : line[i] = "="}
    IN IF eqs = {} THEN None
       ELSE LET p == CHOOSE j \in eqs : \A k \in eqs : j <= k
            IN IF /\ p > 1
                  /\ \A i \in 1..(p - 1) : IsWord(line[i])
                  /\ \A i \in (p + 1)..Len(line) : ~IsSpace(line[i])
               THEN Some([name |-> Flatten(SubSeq(line, 1, p - 1)),
                          value |-> Flatten(SubSeq(line, p + 1, Len(line)))])
               ELSE None

----------------------------------------------------------------------------
(* configuration.environment *)

\* parse_lines without the test on PWD
RECURSIVE parse_lines_keep_pwd(_, _)
parse_lines_keep_pwd(environment, lines) ==
    IF lines = <<>> THEN environment
    ELSE LET match == re_match(normalise_line(lines[1]))
             updated ==
                 IF match # None
                 THEN (match[1].name :> match[1].value) @@ environment
                 ELSE environment
         IN parse_lines_keep_pwd(updated, Tail(lines))

\* the loop over the output lines, from the dict built so far
RECURSIVE parse_lines(_, _)
parse_lines(environment, lines) ==
    IF lines = <<>> THEN environment
    ELSE LET match == re_match(normalise_line(lines[1]))
             updated ==
                 IF match # None /\ match[1].name # "PWD"
                 THEN (match[1].name :> match[1].value) @@ environment
                 ELSE environment
         IN parse_lines(updated, Tail(lines))

\* environment that parses what the subshell printed whatever its exit code
environment_ignore_returncode(out, err, returncode) ==
    [exc |-> None, ret |-> Some(parse_lines(<<>>, str_split(out)))]

\* environment(sh_file, env), given what the subshell printed on stdout and
\* stderr and its exit code: the returned dict, or the raised exception
environment(out, err, returncode) ==
    IF returncode # 0
    THEN [exc |-> Some([type |-> "Exception",
                        message |-> "Could not parse 'sh_file' " \o err
                            \o ". Maybe you should check if all the "
                            \o "dependencies are installed"]),
          ret |-> None]
    ELSE [exc |-> None, ret |-> Some(parse_lines(<<>>, str_split(out)))]

----------------------------------------------------------------------------
(* configuration.concat_environment *)

\* concat_items as dict.update: a colliding value is replaced, not joined
concat_items_update(h, concat_env, env2, keys) ==
    (concat_env :> ([k \in keys |-> h[env2][k]] @@ h[concat_env])) @@ h

\* concat_items without the test that the two values differ
RECURSIVE concat_items_always_join(_, _, _, _)
concat_items_always_join(h, concat_env, env2, keys) ==
    IF keys = {} THEN h
    ELSE LET key == CHOOSE k \in keys : TRUE
             cur == h[concat_env]
             new == IF key \in DOMAIN cur
                    THEN (key :> (cur[key] \o ":" \o h[env2][key])) @@ cur
                    ELSE (key :> h[env2][key]) @@ cur
         IN concat_items_always_join((concat_env :> new) @@ h, concat_env,
                                     env2, keys \ {key})

\* the loop over env2.items(): heap is the dict objects, concat_env and env2
\* are references into it
RECURSIVE concat_items(_, _, _, _)
concat_items(h, concat_env, env2, keys) ==
    IF keys = {} THEN h
    ELSE LET key == CHOOSE k \in keys : TRUE
             value == h[env2][key]
             cur == h[concat_env]
             new == IF key \in DOMAIN cur
                    THEN IF value # cur[key]
                         THEN (key :> (cur[key] \o ":" \o h[env2][key])) @@ cur
                         ELSE cur
                    ELSE (key :> h[env2][key]) @@ cur
         IN concat_items((concat_env :> new) @@ h, concat_env, env2,
                         keys \ {key})

\* concat_environment that merges into a copy of env1, a new dict object
concat_environment_copy(h, env1, env2) ==
    LET concat_env == "copy"
        h1 == (concat_env :> h[env1]) @@ h
    IN [heap |-> concat_items(h1, concat_env, env2, DOMAIN h[env2]),
        ret |-> concat_env]

\* concat_environment(env1, env2) on references: the heap after the call and
\* the reference returned
concat_environment(h, env1, env2) ==
    LET concat_env == env1
    IN [heap |-> concat_items(h, concat_env, env2, DOMAIN h[env2]),
        ret |-> concat_env]

\* concat_environment on two fresh dicts, as a value
concat_value(m1, m2) ==
    LET r == concat_environment([env1 |-> m1, env2 |-> m2], "env1", "env2")
    IN r.heap[r.ret]

----------------------------------------------------------------------------
(* The file system and the shell, as the wrapper sees them *)

FS6 == "/fs6/SetUpFreeSurfer.sh"
FS5 == "/fs5/SetUpFreeSurfer.sh"
OLD == "/old/SetUpFreeSurfer.sh"
PLAIN == "/etc/plain.sh"
BROKEN == "/etc/broken.sh"
MISSING == "/nowhere/SetUpFreeSurfer.sh"

\* what each existing configuration script exports
ScriptExports ==
    (FS6 :> [FREESURFER_HOME |-> "/fs6", PATH |-> "/fs6/bin",
             SUBJECTS_DIR |-> "/fs6/subjects"])
    @@ (FS5 :> [FREESURFER_HOME |-> "/fs5", PATH |-> "/fs5/bin"])
    @@ (OLD :> [FREESURFER_HOME |-> "/old"])
    @@ (PLAIN :> [PATH |-> "/usr/bin"])
    @@ (BROKEN :> <<>>)

\* os.path.isfile on a configuration script
isfile(path) == path \in DOMAIN ScriptExports

\* the text of <FREESURFER_HOME>/build-stamp.txt, one token per character
StampFiles ==
    [fs6 |-> <<"v", "6", ".", "0", ".", "0", "-", "2", "b">>,
     fs5 |-> <<"v", "5", ".", "1", ".", "0">>,
     old |-> <<"W", "R", "O", "N", "G">>,
     two |-> <<"5", ".", "3", ".", "0", " ", "6", ".", "0", ".", "0">>]
StampOf ==
    ("/fs6" :> StampFiles.fs6) @@ ("/fs5" :> StampFiles.fs5)
    @@ ("/old" :> StampFiles.old) @@ ("/two" :> StampFiles.two)

\* the lines printenv prints for the dict m
RECURSIVE printenv(_, _)
printenv(m, keys) ==
    IF keys = {} THEN <<>>
    ELSE LET k == CHOOSE x \in keys : TRUE
         IN <<k, "=", m[k], "\n">> \o printenv(m, keys \ {k})

\* what bash -c ". '<sh_file>' ; /usr/bin/printenv" prints and how it exits,
\* started with the environment env
shell(sh_file, env) ==
    LET exports == IF sh_file \in DOMAIN ScriptExports
                   THEN ScriptExports[sh_file] ELSE <<>>
        m == exports @@ env
    IN [stdout |-> printenv(m, DOMAIN m) \o <<"PWD", "=", "/cwd", "\n">>,
        stderr |-> IF sh_file = BROKEN THEN "exit" ELSE "",
        returncode |-> IF sh_file = BROKEN THEN 1 ELSE 0]

----------------------------------------------------------------------------
(* json, re and str as the wrapper uses them *)

\* json.dumps(d) of a dict of strings: the member list of the JSON object
RECURSIVE json_dumps_members(_, _)
json_dumps_members(d, keys) ==
    IF keys = {} THEN <<>>
    ELSE LET k == CHOOSE x \in keys : TRUE
         IN <<[key |-> k, value |-> d[k]]>>
            \o json_dumps_members(d, keys \ {k})
json_dumps(d) == json_dumps_members(d, DOMAIN d)

\* json.loads(text): the dict of the members, a later member winning
RECURSIVE json_loads(_)
json_loads(text) ==
    IF text = <<>> THEN <<>>
    ELSE LET last == text[Len(text)]
         IN (last.key :> last.value)
            @@ json_loads(SubSeq(text, 1, Len(text) - 1))

Digits == {"0", "1", "2", "3", "4", "5", "6", "7", "8", "9"}

\* re.findall("\d.\d.\d", text): the non-overlapping matches, left to right
RECURSIVE re_findall(_)
re_findall(text) ==
    IF Len(text) < 5 THEN <<>>
    ELSE IF /\ text[1] \in Digits /\ text[2] # "\n"
            /\ text[3] \in Digits /\ text[4] # "\n"
            /\ text[5] \in Digits
         THEN <<SubSeq(text, 1, 5)>>
              \o re_findall(SubSeq(text, 6, Len(text)))
         ELSE re_findall(Tail(text))

\* " ".join(words)
RECURSIVE str_join(_)
str_join(words) ==
    IF words = <<>> THEN ""
    ELSE IF Len(words) = 1 THEN words[1]
         ELSE words[1] \o " " \o str_join(Tail(words))

----------------------------------------------------------------------------
(* wrapper.FSWrapper *)

FREESURFER_RELEASE == {"5.3.0", "6.0.0"}

\* the state of the process that the wrapper reads and writes
Proc ==
    [os_environ |-> os_environ, links |-> links, files |-> fsfiles,
     cwd |-> cwd, spawned |-> spawned, nreads |-> nreads, nwarn |-> nwarn,
     base_env |-> base_env]

\* subprocess.Popen(argv, env=env) and communicate(): the process is logged
\* with the exit code it ends with
Popen(P, argv, env, returncode) ==
    [P EXCEPT !.spawned = Append(@, [argv |-> argv, env |-> env,
                                     returncode |-> returncode])]

Raise(P, type, message) ==
    [P |-> P, exc |-> Some([type |-> type, message |-> message]),
     ret |-> None]

\* configuration.environment(sh_file, env) in the process
run_environment(P, sh_file, env) ==
    LET command == <<"bash", "-c",
                     ". '" \o sh_file \o "' ; /usr/bin/printenv">>
        parsed(sh) ==
            LET r == environment(sh.stdout, sh.stderr, sh.returncode)
            IN [P |-> Popen(P, command, env, sh.returncode),
                exc |-> r.exc, ret |-> r.ret]
    IN parsed(shell(sh_file, env))

\* FSWrapper._environment that parses the script at every call
FSWrapper_environment_no_cache(P, shfile) ==
    LET env == IF "FREESURFER_HOME" \in DOMAIN P.os_environ
               THEN [FREESURFER_HOME |-> P.os_environ["FREESURFER_HOME"]]
               ELSE <<>>
        saved(r) ==
            IF r.exc # None THEN r
            ELSE [P |-> [r.P EXCEPT
                            !.os_environ =
                                ("FREESURFER_CONFIGURED"
                                     :> json_dumps(r.ret[1])) @@ @,
                            !.base_env = r.ret],
                  exc |-> None, ret |-> r.ret]
    IN saved(run_environment(P, shfile, env))

\* FSWrapper._environment
FSWrapper_environment(P, shfile) ==
    IF "FREESURFER_CONFIGURED" \notin DOMAIN P.os_environ
    THEN LET env == IF "FREESURFER_HOME" \in DOMAIN P.os_environ
                    THEN [FREESURFER_HOME |->
                              P.os_environ["FREESURFER_HOME"]]
                    ELSE <<>>
             \* r is what environment(self.shfile, env) did
             saved(r) ==
                 IF r.exc # None THEN r
                 ELSE [P |-> [r.P EXCEPT
                                 !.os_environ =
                                     ("FREESURFER_CONFIGURED"
                                          :> json_dumps(r.ret[1])) @@ @,
                                 !.base_env = r.ret],
                       exc |-> None, ret |-> r.ret]
         IN saved(run_environment(P, shfile, env))
    ELSE LET env == json_loads(P.os_environ["FREESURFER_CONFIGURED"])
         IN [P |-> [P EXCEPT !.base_env = Some(env)],
             exc |-> None, ret |-> Some(env)]

\* FSWrapper._freesurfer_version_check that checks the version only when it
\* configures FreeSurfer
FSWrapper_freesurfer_version_check_once(P, shfile) ==
    LET checked(e) ==
            IF e.exc # None THEN e
            ELSE [P |-> IF "FREESURFER_CONFIGURED" \in DOMAIN P.os_environ
                        THEN e.P
                        ELSE [e.P EXCEPT !.nreads = @ + 1],
                  exc |-> None,
                  ret |-> Some([environment |-> e.ret[1],
                                version |-> <<"6", ".", "0", ".", "0">>])]
    IN IF ~isfile(shfile)
       THEN Raise(P, "ValueError",
                  "'" \o shfile \o "' is not a valid file, can't configure "
                      \o "FreeSurfer.")
       ELSE checked(FSWrapper_environment(P, shfile))

\* FSWrapper._freesurfer_version_check that takes the first version it finds
\* and raises only when there is none
FSWrapper_freesurfer_version_check_first_match(P, shfile) ==
    LET read(P0, environ) ==
            LET P1 == [P0 EXCEPT !.nreads = @ + 1]
                match_object ==
                    re_findall(StampOf[environ["FREESURFER_HOME"]])
            IN IF Len(match_object) = 0
               THEN Raise(P1, "ValueError",
                          "Can't detect 'FREESURFER' version")
               ELSE [P |-> IF Flatten(match_object[1])
                               \notin FREESURFER_RELEASE
                           THEN [P1 EXCEPT !.nwarn = @ + 1]
                           ELSE P1,
                     exc |-> None,
                     ret |-> Some([environment |-> environ,
                                   version |-> match_object[1]])]
        checked(e) ==
            IF e.exc # None THEN e
            ELSE IF "FREESURFER_HOME" \notin DOMAIN e.ret[1]
            THEN Raise(e.P, "KeyError", "FREESURFER_HOME")
            ELSE IF e.ret[1]["FREESURFER_HOME"] \notin DOMAIN StampOf
            THEN Raise(e.P, "IOError",
                       e.ret[1]["FREESURFER_HOME"] \o "/build-stamp.txt")
            ELSE read(e.P, e.ret[1])
    IN IF isfile(shfile)
       THEN checked(FSWrapper_environment(P, shfile))
       ELSE Raise(P, "ValueError",
                  "'" \o shfile \o "' is not a valid file, can't configure "
                      \o "FreeSurfer.")

\* FSWrapper._freesurfer_version_check: ret is <<[environment, version]>>,
\* the version one token per character
FSWrapper_freesurfer_version_check(P, shfile) ==
    LET \* the file under FREESURFER_HOME is read and searched
        read(P0, environ) ==
            LET P1 == [P0 EXCEPT !.nreads = @ + 1]
                match_object ==
                    re_findall(StampOf[environ["FREESURFER_HOME"]])
            IN IF Len(match_object) # 1
               THEN Raise(P1, "ValueError",
                          "Can't detect 'FREESURFER' version")
               ELSE [P |-> IF Flatten(match_object[1])
                               \notin FREESURFER_RELEASE
                           THEN [P1 EXCEPT !.nwarn = @ + 1]
                           ELSE P1,
                     exc |-> None,
                     ret |-> Some([environment |-> environ,
                                   version |-> match_object[1]])]
        \* e is what self._environment() did
        checked(e) ==
            IF e.exc # None THEN e
            ELSE IF "FREESURFER_HOME" \notin DOMAIN e.ret[1]
            THEN Raise(e.P, "KeyError", "FREESURFER_HOME")
            ELSE IF e.ret[1]["FREESURFER_HOME"] \notin DOMAIN StampOf
            THEN Raise(e.P, "IOError",
                       e.ret[1]["FREESURFER_HOME"] \o "/build-stamp.txt")
            ELSE read(e.P, e.ret[1])
    IN IF isfile(shfile)
       THEN checked(FSWrapper_environment(P, shfile))
       ELSE Raise(P, "ValueError",
                  "'" \o shfile \o "' is not a valid file, can't configure "
                      \o "FreeSurfer.")

\* FSWrapper.__init__ whose SUBJECTS_DIR is chosen by pick(e2, environ): e2
\* is the configured environment merged with env and the FSL one
FSWrapper_init_with(P, cmd, shfile, env, subjects_dir, fsl_env, pick(_, _)) ==
    LET built(v) ==
            IF v.exc # None THEN v
            ELSE LET e0 == v.ret[1].environment
                     e1 == IF env # None THEN concat_value(e0, env[1])
                           ELSE e0
                     e2 == IF fsl_env # None
                           THEN concat_value(e1, fsl_env[1])
                           ELSE e1
                     e3 == pick(e2, v.P.os_environ)
                     e4 == IF /\ Len(cmd) > 0 /\ cmd[1] = "tkmedit"
                              /\ "DISPLAY" \in DOMAIN v.P.os_environ
                           THEN ("DISPLAY" :> v.P.os_environ["DISPLAY"])
                                @@ e3
                           ELSE e3
                 IN [P |-> v.P, exc |-> None,
                     ret |-> Some([cmd |-> cmd, shfile |-> shfile,
                                   version |-> Some(v.ret[1].version),
                                   environment |-> e4,
                                   exitcode |-> None, stdout |-> None,
                                   stderr |-> None])]
    IN built(FSWrapper_freesurfer_version_check(P, shfile))

\* FSWrapper.__init__ that takes SUBJECTS_DIR of os.environ only when the
\* configured environment has none
FSWrapper_init_setdefault(P, cmd, shfile, env, subjects_dir, fsl_env) ==
    FSWrapper_init_with(
        P, cmd, shfile, env, subjects_dir, fsl_env,
        LAMBDA e2, environ :
            IF subjects_dir # None
            THEN ("SUBJECTS_DIR" :> subjects_dir[1]) @@ e2
            ELSE IF "SUBJECTS_DIR" \in DOMAIN environ
                 THEN e2 @@ ("SUBJECTS_DIR" :> environ["SUBJECTS_DIR"])
                 ELSE e2)

\* FSWrapper.__init__ that looks at os.environ before its subjects_dir
\* argument
FSWrapper_init_environ_first(P, cmd, shfile, env, subjects_dir, fsl_env) ==
    FSWrapper_init_with(
        P, cmd, shfile, env, subjects_dir, fsl_env,
        LAMBDA e2, environ :
            IF "SUBJECTS_DIR" \in DOMAIN environ
            THEN ("SUBJECTS_DIR" :> environ["SUBJECTS_DIR"]) @@ e2
            ELSE IF subjects_dir # None
                 THEN ("SUBJECTS_DIR" :> subjects_dir[1]) @@ e2
                 ELSE e2)

\* FSWrapper.__init__: ret is <<the new object>>.  fsl_env is <<the
\* environment of the FSL wrapper>> when add_fsl_env is set, else None
FSWrapper_init(P, cmd, shfile, env, subjects_dir, fsl_env) ==
    LET \* v is what self._freesurfer_version_check() did
        built(v) ==
            IF v.exc # None THEN v
            ELSE LET e0 == v.ret[1].environment
                     e1 == IF env # None THEN concat_value(e0, env[1])
                           ELSE e0
                     e2 == IF fsl_env # None
                           THEN concat_value(e1, fsl_env[1])
                           ELSE e1
                     e3 == IF subjects_dir # None
                           THEN ("SUBJECTS_DIR" :> subjects_dir[1]) @@ e2
                           ELSE IF "SUBJECTS_DIR" \in DOMAIN v.P.os_environ
                                THEN ("SUBJECTS_DIR"
                                          :> v.P.os_environ["SUBJECTS_DIR"])
                                     @@ e2
                                ELSE e2
                     e4 == IF /\ Len(cmd) > 0 /\ cmd[1] = "tkmedit"
                              /\ "DISPLAY" \in DOMAIN v.P.os_environ
                           THEN ("DISPLAY" :> v.P.os_environ["DISPLAY"])
                                @@ e3
                           ELSE e3
                 IN [P |-> v.P, exc |-> None,
                     ret |-> Some([cmd |-> cmd, shfile |-> shfile,
                                   version |-> Some(v.ret[1].version),
                                   environment |-> e4,
                                   exitcode |-> None, stdout |-> None,
                                   stderr |-> None])]
    IN built(FSWrapper_freesurfer_version_check(P, shfile))

\* the Python object None where it stands in an argument list among strings:
\* a token that is no option and no path
PyNone == "<None>"

\* FSWrapper.__call__ that runs the command whatever the lookup says
FSWrapper_call_no_lookup_check(P, self, o) ==
    IF self.cmd = <<>>
    THEN [P |-> P,
          exc |-> Some([type |-> "IndexError",
                        message |-> "list index out of range"]),
          ret |-> Some(self)]
    ELSE LET P1 == Popen(P, <<"which", self.cmd[1]>>, self.environment,
                         o.which)
             P2 == Popen(P1, self.cmd, self.environment, o.rc)
             s2 == [self EXCEPT !.exitcode = Some(o.rc),
                                !.stdout = Some(o.out),
                                !.stderr = Some(o.err)]
         IN [P |-> P2, exc |-> None, ret |-> Some(s2)]

\* FSWrapper.__call__ that reports stdout before stderr
FSWrapper_call_stdout_first(P, self, o) ==
    IF self.cmd = <<>>
    THEN [P |-> P,
          exc |-> Some([type |-> "IndexError",
                        message |-> "list index out of range"]),
          ret |-> Some(self)]
    ELSE LET P1 == Popen(P, <<"which", self.cmd[1]>>, self.environment,
                         o.which)
             P2 == Popen(P1, self.cmd, self.environment, o.rc)
             s2 == [self EXCEPT !.exitcode = Some(o.rc),
                                !.stdout = Some(o.out),
                                !.stderr = Some(o.err)]
         IN IF o.which # 0
            THEN [P |-> P1,
                  exc |-> Some([type |-> "FreeSurferConfigurationError",
                                message |-> "FreeSurfer command '"
                                    \o self.cmd[1] \o "' not found."]),
                  ret |-> Some(self)]
            ELSE IF o.rc # 0
                 THEN [P |-> P2,
                       exc |-> Some([type |-> "FreeSurferRuntimeError",
                                     message |->
                                         "FreeSurfer call for '"
                                         \o self.cmd[1]
                                         \o "' failed, with parameters: '"
                                         \o str_join(Tail(self.cmd))
                                         \o "'.Error:: "
                                         \o o.out \o o.err \o "."]),
                       ret |-> Some(s2)]
                 ELSE [P |-> P2, exc |-> None, ret |-> Some(s2)]

\* FSWrapper.__call__ on the object self: ret is <<the object after the
\* call>>; o is what the two processes do: the exit code of which, the exit
\* code, stdout and stderr of the command
FSWrapper_call(P, self, o) ==
    IF self.cmd = <<>>
    THEN [P |-> P,
          exc |-> Some([type |-> "IndexError",
                        message |-> "list index out of range"]),
          ret |-> Some(self)]
    ELSE LET P1 == Popen(P, <<"which", self.cmd[1]>>, self.environment,
                         o.which)
             s1 == [self EXCEPT !.exitcode = Some(o.which),
                                !.stdout = Some(""), !.stderr = Some("")]
         IN IF o.which # 0
            THEN [P |-> P1,
                  exc |-> Some([type |-> "FreeSurferConfigurationError",
                                message |-> "FreeSurfer command '"
                                    \o self.cmd[1] \o "' not found."]),
                  ret |-> Some(s1)]
            ELSE IF \E i \in 1..Len(self.cmd) : self.cmd[i] = PyNone
            THEN \* subprocess.Popen refuses an argument that is no string
                 [P |-> P1,
                  exc |-> Some([type |-> "TypeError",
                                message |-> "execv() arg 2 must contain "
                                    \o "only strings"]),
                  ret |-> Some(s1)]
            ELSE LET P2 == Popen(P1, self.cmd, self.environment, o.rc)
                     s2 == [self EXCEPT !.exitcode = Some(o.rc),
                                        !.stdout = Some(o.out),
                                        !.stderr = Some(o.err)]
                 IN IF o.rc # 0
                    THEN [P |-> P2,
                          exc |-> Some([type |-> "FreeSurferRuntimeError",
                                        message |->
                                            "FreeSurfer call for '"
                                            \o self.cmd[1]
                                            \o "' failed, with parameters: '"
                                            \o str_join(Tail(self.cmd))
                                            \o "'.Error:: "
                                            \o o.err \o o.out \o "."]),
                          ret |-> Some(s2)]
                    ELSE [P |-> P2, exc |-> None, ret |-> Some(s2)]

----------------------------------------------------------------------------
(* The domain functions: input checks and command lists *)

\* os.path.join(a, b)
join(a, b) == a \o "/" \o b

\* str(n) of an integer
DigitStr == <<"0", "1", "2", "3", "4", "5", "6", "7", "8", "9">>
RECURSIVE str_nat(_)
str_nat(n) ==
    IF n < 10 THEN DigitStr[n + 1]
    ELSE str_nat(n \div 10) \o DigitStr[(n % 10) + 1]
str(n) == IF n < 0 THEN "-" \o str_nat(0 - n) ELSE str_nat(n)

ValueError(message) == Some([type |-> "ValueError", message |-> message])

bad_hemi(hemi) ==
    ValueError("'" \o hemi \o "' is not a valid hemisphere value which "
               \o "must be in ['lh', 'rh']")
bad_file(path) == ValueError("'" \o path \o "' is not a valid input file.")
bad_dir(path) == ValueError("'" \o path \o "' is not a valid directory.")
bad_ico(ico_order) ==
    ValueError("'Ico order '" \o str(ico_order) \o "' is not in 0-7 range.")

\* one entry of a command list: a command run by a wrapper of its own
Cmd(argv) == [kind |-> "cmd", argv |-> argv]

\* the input checks of mri_surf2surf that let every hemisphere through
mri_surf2surf_check_no_hemi(a) ==
    IF ~a.input_isfile THEN bad_file(a.input_surface_file)
    ELSE IF ~a.fsdir_isdir THEN bad_dir(a.fsdir)
    ELSE IF a.ico_order < 0 \/ a.ico_order > 7 THEN bad_ico(a.ico_order)
    ELSE None

\* the input checks of mri_surf2surf that let every order through
mri_surf2surf_check_no_ico(a) ==
    IF ~a.input_isfile THEN bad_file(a.input_surface_file)
    ELSE IF ~a.fsdir_isdir THEN bad_dir(a.fsdir)
    ELSE IF a.hemi \notin {"lh", "rh"} THEN bad_hemi(a.hemi)
    ELSE None

\* surfconvs.mri_surf2surf: the input checks, <<exception>> or None
mri_surf2surf_check(a) ==
    IF ~a.input_isfile THEN bad_file(a.input_surface_file)
    ELSE IF ~a.fsdir_isdir THEN bad_dir(a.fsdir)
    ELSE IF a.hemi \notin {"lh", "rh"} THEN bad_hemi(a.hemi)
    ELSE IF a.ico_order < 0 \/ a.ico_order > 7 THEN bad_ico(a.ico_order)
    ELSE None

\* surfconvs.mri_surf2surf: the command
\* the command of mri_surf2surf with the source subject before the source
\* values
mri_surf2surf_cmd_srcsubject_first(a) ==
    <<"mri_surf2surf", "--hemi", a.hemi, "--srcsubject", a.sid,
      "--srcsurfval", a.input_surface_file, "--trgsubject", "ico",
      "--trgicoorder", str(a.ico_order), "--trgsurfval",
      a.output_surface_file, "--sd", a.fsdir, "--trg_type", "mgz">>

mri_surf2surf_cmd(a) ==
    <<"mri_surf2surf", "--hemi", a.hemi, "--srcsurfval",
      a.input_surface_file, "--srcsubject", a.sid, "--trgsubject", "ico",
      "--trgicoorder", str(a.ico_order), "--trgsurfval",
      a.output_surface_file, "--sd", a.fsdir, "--trg_type", "mgz">>

\* volconvs.mri_vol2surf: the input checks
mri_vol2surf_check(a) ==
    IF ~a.volume_isfile THEN bad_file(a.volume_file)
    ELSE IF ~a.dat_isfile THEN bad_file(a.dat_file)
    ELSE IF ~a.fsdir_isdir THEN bad_dir(a.fsdir)
    ELSE IF a.hemi \notin {"lh", "rh"} THEN bad_hemi(a.hemi)
    ELSE IF a.surface_name \notin {"white", "pial"}
         THEN ValueError("'" \o a.surface_name \o "' is not a valid "
                         \o "surface value which must be in "
                         \o "['white', 'pial']")
    ELSE IF a.ico_order < 0 \/ a.ico_order > 7 THEN bad_ico(a.ico_order)
    ELSE None

\* volconvs.mri_vol2surf: the command
mri_vol2surf_cmd(a) ==
    <<"mri_vol2surf", "--src", a.volume_file, "--out", a.out_texture_file,
      "--srcreg", a.dat_file, "--hemi", a.hemi, "--trgsubject", "ico",
      "--icoorder", str(a.ico_order), "--surf", a.surface_name, "--sd",
      a.fsdir, "--srcsubject", a.sid, "--noreshape", "--out_type", "mgz">>

\* surfconvs.midgray_surface: the input checks
midgray_surface_check(a) ==
    IF ~a.white_isfile
    THEN bad_file(join(join(join(a.fsdir, a.sid), "surf"),
                       a.hemi \o ".white"))
    ELSE IF ~a.fsdir_isdir THEN bad_dir(a.fsdir)
    ELSE IF a.hemi \notin {"lh", "rh"} THEN bad_hemi(a.hemi)
    ELSE None

\* surfconvs.midgray_surface: the two commands, each with the link made
\* after it
midgray_surface_cmds(a) ==
    LET white_file == join(join(join(a.fsdir, a.sid), "surf"),
                           a.hemi \o ".white")
        one(factor, name) ==
            [kind |-> "cmd",
             argv |-> <<"mris_expand", "-thickness", white_file, factor,
                        join(a.outdir, a.hemi \o "." \o name)>>,
             midgray_file |-> join(a.outdir, a.hemi \o "." \o name),
             surf_file |-> join(join(join(a.fsdir, a.sid), "surf"),
                                a.hemi \o "." \o name)]
    IN <<one("0.5", "graymid"), one("-0.5", "mirror.graymid")>>

\* surfconvs.interhemi_surfreg: the input checks
interhemi_surfreg_check(a) ==
    IF a.hemi \notin {"lh", "rh"} THEN bad_hemi(a.hemi)
    ELSE IF ~a.subjfsdir_isdir THEN bad_dir(join(a.fsdir, a.sid))
    ELSE IF ~a.outdir_isdir THEN bad_dir(a.outdir)
    ELSE None

\* os.listdir(subjfsdir)
SubjectEntries == {"surf", "mri", "scripts"}

\* surfconvs.interhemi_surfreg: the links of the working directory, one per
\* entry of the subject directory but scripts
interhemi_surfreg_destpaths(a) ==
    {join(join(a.outdir, a.destname), basename) :
         basename \in SubjectEntries \ {"scripts"}}

\* surfconvs.interhemi_surfreg: the three commands
interhemi_surfreg_cmds(a) ==
    <<Cmd(<<"surfreg", "--s", a.destname, "--t", "fsaverage_sym",
            "--" \o a.hemi>>),
      Cmd(<<"xhemireg", "--s", a.destname>>),
      Cmd(<<"surfreg", "--s", a.destname, "--t", "fsaverage_sym",
            "--" \o a.hemi, "--xhemi">>)>>

\* norders.min() and norders.max() of a non-empty list
list_min(l) == CHOOSE x \in {l[i] : i \in 1..Len(l)} :
                   \A j \in 1..Len(l) : x <= l[j]
list_max(l) == CHOOSE x \in {l[i] : i \in 1..Len(l)} :
                   \A j \in 1..Len(l) : x >= l[j]

\* "{0}".format(orders) of a list of integers
RECURSIVE list_items(_)
list_items(l) ==
    IF l = <<>> THEN ""
    ELSE IF Len(l) = 1 THEN str(l[1])
         ELSE str(l[1]) \o ", " \o list_items(Tail(l))
list_repr(l) == "[" \o list_items(l) \o "]"

\* surfconvs.resample_cortical_surface: the input checks
resample_cortical_surface_check(a) ==
    IF ~a.fsdir_isdir THEN bad_dir(a.fsdir)
    ELSE IF ~a.outdir_isdir THEN bad_dir(a.outdir)
    ELSE IF a.surface_name \notin {"white", "pial", "graymid"}
         THEN ValueError("'" \o a.surface_name \o "' is not a valid "
                         \o "surface value which must be in "
                         \o "['white', 'pial']")
    ELSE IF a.orders = <<>>
         THEN ValueError("zero-size array to reduction operation minimum "
                         \o "which has no identity")
    ELSE IF list_min(a.orders) < 0 \/ list_max(a.orders) > 7
         THEN ValueError("'At least one value in " \o list_repr(a.orders)
                         \o " is not in 0-7 range.")
    ELSE None

\* surfconvs.resample_cortical_surface: the output files of an order
resample_convertfile(a, level) ==
    join(join(join(a.outdir, "s1"), a.destdirname),
         "lh." \o a.surface_name \o "." \o str(level))
resample_annotfile(a, level) ==
    join(join(join(a.outdir, "s1"), a.destdirname),
         "lh.aparc.annot." \o str(level))

\* surfconvs.resample_cortical_surface: the steps of one surface of subject
\* s1, hemisphere lh: per order, the resampling (its command chosen once the
\* wrapper knows the version) and, unless the annotation file exists, the
\* resampling of the annotation
RECURSIVE resample_cortical_surface_steps(_, _)
resample_cortical_surface_steps(a, orders) ==
    IF orders = <<>> THEN <<>>
    ELSE LET level == orders[1]
             convertfile == resample_convertfile(a, level)
             annotfile == resample_annotfile(a, level)
             svalannot == join(join(join(a.fsdir, "s1"), "label"),
                               "lh.aparc.annot")
             surf == [kind |-> "resample", level |-> level,
                      convertfile |-> convertfile, annotfile |-> annotfile]
             annot == Cmd(<<"mri_surf2surf", "--srcsubject", "s1",
                            "--trgsubject", "ico", "--trgicoorder",
                            str(level), "--hemi", "lh", "--sval-annot",
                            svalannot, "--tval", annotfile, "--sd",
                            a.fsdir>>)
         IN (IF a.annot_isfile THEN <<surf>> ELSE <<surf, annot>>)
            \o resample_cortical_surface_steps(a, Tail(orders))

\* version.parse(v) >= version.parse("6.0.0") of a version d.d.d
version_ge_6(v) ==
    v # None /\ v[1][1] \in {"6", "7", "8", "9"}

\* surfconvs.resample_cortical_surface: the resampling command of a step,
\* for the version of the wrapper
resample_cortical_surface_cmd(a, step, version) ==
    IF version_ge_6(version)
    THEN <<"mri_surf2surf", "--sval-xyz", a.surface_name, "--srcsubject",
           "s1", "--trgsubject", "ico", "--trgicoorder", str(step.level),
           "--tval", step.convertfile, "--tval-xyz",
           join(join(join(a.fsdir, "s1"), "mri"), "orig.mgz"), "--hemi",
           "lh", "--sd", a.fsdir>>
    ELSE <<"mri_surf2surf", "--sval-xyz", a.surface_name, "--srcsubject",
           "s1", "--trgsubject", "ico", "--trgicoorder", str(step.level),
           "--tval", step.convertfile, "--tval-xyz", "--hemi", "lh", "--sd",
           a.fsdir>>

\* cortical.recon_all_longitudinal: the input checks
RECON_ALL_STAGES ==
    {"all", "autorecon1", "autorecon2", "autorecon2-cp", "autorecon2-wm",
     "autorecon2-pial", "autorecon3"}

\* cortical.recon_all: the input checks
recon_all_check(a) ==
    IF ~a.fsdir_isdir
    THEN ValueError("'" \o a.fsdir \o "' FreeSurfer home directory does not "
                    \o "exists.")
    ELSE IF a.reconstruction_stage \notin RECON_ALL_STAGES
    THEN ValueError("Unsupported '" \o a.reconstruction_stage
                    \o "' recon-all reconstruction stage.")
    ELSE None

\* cortical.recon_all: the command; t2file and flairfile are <<path>> or
\* None
recon_all_cmd(a) ==
    LET cmd == <<"recon-all", "-" \o a.reconstruction_stage, "-subjid",
                 a.sid, "-i", a.anatfile, "-sd", a.fsdir, "-noappend",
                 "-no-isrunning">>
        t2 == IF a.t2file # None
              THEN <<"-T2", a.t2file[1], "-T2pial">> ELSE <<>>
        flair == IF a.flairfile # None
                 THEN <<"-FLAIR",
                        IF a.t2file # None THEN a.t2file[1] ELSE PyNone,
                        "-FLAIRpial">>
                 ELSE <<>>
    IN IF a.resume
       THEN [(cmd \o t2 \o flair) EXCEPT ![2] = "-make all"]
       ELSE cmd \o t2 \o flair

recon_all_longitudinal_check(a) ==
    IF ~a.subject_dirs_exist
    THEN ValueError("Directory does not exist: "
                    \o join(a.subjects_dirs[1], a.subject_id))
    ELSE IF a.timepoints # None
            /\ Len(a.timepoints[1]) # Len(a.subjects_dirs)
         THEN ValueError("There should be as many timepoints as "
                         \o "subjects_dirs")
    ELSE None

\* cortical.recon_all_longitudinal: the timepoint names
recon_all_longitudinal_timepoints(a) ==
    IF a.timepoints = None
    THEN [n \in 1..Len(a.subjects_dirs) |-> str(n)]
    ELSE a.timepoints[1]

\* "_".join(words)
RECURSIVE underscore_join(_)
underscore_join(words) ==
    IF words = <<>> THEN ""
    ELSE IF Len(words) = 1 THEN words[1]
         ELSE words[1] \o "_" \o underscore_join(Tail(words))

RECURSIVE tp_args(_)
tp_args(ids) ==
    IF ids = <<>> THEN <<>> ELSE <<"-tp", ids[1]>> \o tp_args(Tail(ids))

\* recon_all_longitudinal that reruns the timepoints before it makes the
\* template
recon_all_longitudinal_cmds_long_first(a) ==
    LET tps == recon_all_longitudinal_timepoints(a)
        subject_tp_ids == [i \in 1..Len(tps) |-> a.subject_id \o "_" \o tps[i]]
        subject_template_id ==
            a.subject_id \o "_template_" \o underscore_join(tps)
    IN [i \in 1..Len(tps) |->
           [kind |-> "cmd",
            argv |-> <<"recon-all", "-long", subject_tp_ids[i],
                       subject_template_id, "-all">>,
            long_id |-> subject_tp_ids[i] \o ".long."
                            \o subject_template_id]]
       \o <<Cmd(<<"recon-all", "-base", subject_template_id>>
                \o tp_args(subject_tp_ids) \o <<"-all">>)>>

\* cortical.recon_all_longitudinal: the template command, then one -long
\* command per timepoint
recon_all_longitudinal_cmds(a) ==
    LET tps == recon_all_longitudinal_timepoints(a)
        subject_tp_ids == [i \in 1..Len(tps) |-> a.subject_id \o "_" \o tps[i]]
        subject_template_id ==
            a.subject_id \o "_template_" \o underscore_join(tps)
    IN <<Cmd(<<"recon-all", "-base", subject_template_id>>
             \o tp_args(subject_tp_ids) \o <<"-all">>)>>
       \o [i \in 1..Len(tps) |->
              [kind |-> "cmd",
               argv |-> <<"recon-all", "-long", subject_tp_ids[i],
                          subject_template_id, "-all">>,
               long_id |-> subject_tp_ids[i] \o ".long."
                               \o subject_template_id]]

\* stattools.aparcstats2table: the input checks
aparcstats2table_check(a) ==
    IF ~a.fsdir_isdir THEN bad_dir(a.fsdir)
    ELSE IF ~a.outdir_isdir THEN bad_dir(a.outdir)
    ELSE None

APARC_HEMIS == <<"lh", "rh">>
APARC_MEASURES ==
    <<"area", "volume", "thickness", "thicknessstd", "meancurv", "gauscurv",
      "foldind", "curvind">>

\* stattools.aparcstats2table: the commands of the Desikan template, then
\* those of the Destrieux template, per hemisphere and measure
aparcstats2table_cmds(a) ==
    LET n == Len(APARC_MEASURES)
        fsoutdir == join(a.outdir, "stats")
        hemi(i) == APARC_HEMIS[((i - 1) \div n) + 1]
        meas(i) == APARC_MEASURES[((i - 1) % n) + 1]
        desikan(i) ==
            LET statfile == join(fsoutdir, "aparc_stats_" \o hemi(i) \o "_"
                                               \o meas(i) \o ".csv")
            IN [kind |-> "cmd", statfile |-> statfile,
                argv |-> <<"aparcstats2table", "--subjects">> \o a.subjects
                         \o <<"--hemi", hemi(i), "--meas", meas(i),
                              "--tablefile", statfile, "--delimiter",
                              "comma", "--parcid-only">>]
        destrieux(i) ==
            LET statfile == join(fsoutdir, "aparc.2009s_stats_" \o hemi(i)
                                               \o "_" \o meas(i) \o ".csv")
            IN [kind |-> "cmd", statfile |-> statfile,
                argv |-> <<"aparcstats2table", "--subjects">> \o a.subjects
                         \o <<"--parc", "aparc.a2009s", "--hemi", hemi(i),
                              "--meas", meas(i), "--tablefile", statfile,
                              "--delimiter", "comma", "--parcid-only">>]
    IN [i \in 1..(2 * n) |-> desikan(i)] \o [i \in 1..(2 * n) |-> destrieux(i)]

\* stattools.asegstats2table: its one command
asegstats2table_cmds(a) ==
    LET statfile == join(join(a.outdir, "stats"), "aseg_stats_volume.csv")
    IN <<[kind |-> "cmd", statfile |-> statfile,
          argv |-> <<"asegstats2table", "--subjects">> \o a.subjects
                   \o <<"--meas", "volume", "--tablefile", statfile,
                        "--delimiter", "comma">>]>>

\* stattools.tractstats2table: one command per pathway, a.pathwayfiles
\* being the items of the pathwayfiles dict in the order of the loop
tractstats2table_cmds(a) ==
    LET fsoutdir == join(a.outdir, "overall_stats")
        pathway(i) ==
            LET statfile == join(fsoutdir, a.pathwayfiles[i].name \o ".csv")
            IN [kind |-> "cmd", statfile |-> statfile,
                argv |-> <<"tractstats2table", "--inputs">>
                         \o a.pathwayfiles[i].files
                         \o <<"--overall", "--tablefile", statfile>>]
    IN [i \in 1..Len(a.pathwayfiles) |-> pathway(i)]

AXIS_MAP == [C |-> 0, A |-> 1, S |-> 2]

\* slicer.slice_aparc_overlay that keeps a SUBJECTS_DIR that is set already
slice_aparc_overlay_enter_setdefault(P, a) ==
    LET subjdir == join(a.fsdir, a.sid)
        anat_file == join(join(subjdir, "mri"), "nu.mgz")
        P1 == IF a.outdir_isdir THEN [P EXCEPT !.links = {}] ELSE P
    IN IF a.cut_axis \notin DOMAIN AXIS_MAP
       THEN Raise(P, "ValueError",
                  a.cut_axis \o " axis is not recognized: use "
                      \o "{'C': 0, 'A': 1, 'S': 2}.")
       ELSE IF ~a.subjdir_isdir
       THEN Raise(P, "ValueError",
                  "'" \o subjdir \o "' is not a valid FreeSurfer subject "
                      \o "directory.")
       ELSE IF a.outdir_isdir /\ ~a.erase
       THEN Raise(P, "ValueError",
                  "output directory '" \o a.outdir \o "' already exist.")
       ELSE IF ~a.anat_isfile
       THEN Raise(P1, "Exception", "'" \o anat_file \o "' file is missing.")
       ELSE [P |-> [P1 EXCEPT
                       !.os_environ = @ @@ ("SUBJECTS_DIR" :> a.fsdir)],
             exc |-> None, ret |-> None]

\* slicer.slice_aparc_overlay that writes into an output directory that
\* exists already, erase or not
slice_aparc_overlay_enter_overwrite(P, a) ==
    LET subjdir == join(a.fsdir, a.sid)
        anat_file == join(join(subjdir, "mri"), "nu.mgz")
        P1 == IF a.outdir_isdir /\ a.erase THEN [P EXCEPT !.links = {}]
              ELSE P
    IN IF a.cut_axis \notin DOMAIN AXIS_MAP
       THEN Raise(P, "ValueError",
                  a.cut_axis \o " axis is not recognized: use "
                      \o "{'C': 0, 'A': 1, 'S': 2}.")
       ELSE IF ~a.subjdir_isdir
       THEN Raise(P, "ValueError",
                  "'" \o subjdir \o "' is not a valid FreeSurfer subject "
                      \o "directory.")
       ELSE IF ~a.anat_isfile
       THEN Raise(P1, "Exception", "'" \o anat_file \o "' file is missing.")
       ELSE [P |-> [P1 EXCEPT
                       !.os_environ = ("SUBJECTS_DIR" :> a.fsdir) @@ @],
             exc |-> None, ret |-> None]

\* slicer.slice_aparc_overlay up to its first command: the checks, the
\* output directory erased (every link of the model lies in it) and made
\* anew, SUBJECTS_DIR overwritten
slice_aparc_overlay_enter(P, a) ==
    LET subjdir == join(a.fsdir, a.sid)
        anat_file == join(join(subjdir, "mri"), "nu.mgz")
        \* shutil.rmtree(outdir); os.makedirs(outdir)
        P1 == IF a.outdir_isdir THEN [P EXCEPT !.links = {}] ELSE P
    IN IF a.cut_axis \notin DOMAIN AXIS_MAP
       THEN Raise(P, "ValueError",
                  a.cut_axis \o " axis is not recognized: use "
                      \o "{'C': 0, 'A': 1, 'S': 2}.")
       ELSE IF ~a.subjdir_isdir
       THEN Raise(P, "ValueError",
                  "'" \o subjdir \o "' is not a valid FreeSurfer subject "
                      \o "directory.")
       ELSE IF a.outdir_isdir /\ ~a.erase
       THEN Raise(P, "ValueError",
                  "output directory '" \o a.outdir \o "' already exist.")
       ELSE IF ~a.anat_isfile
       THEN Raise(P1, "Exception", "'" \o anat_file \o "' file is missing.")
       ELSE [P |-> [P1 EXCEPT
                       !.os_environ = ("SUBJECTS_DIR" :> a.fsdir) @@ @],
             exc |-> None, ret |-> None]

\* slicer.slice_aparc_overlay: tkmedit, then one convert per RGB file that
\* glob finds, a.slices being the slice numbers of these files
slice_aparc_overlay_cmds(a) ==
    LET stem(i) == join(a.outdir,
                        "slice-" \o a.cut_axis \o "-" \o a.slices[i])
        path_script == join(a.outdir,
                            "tkmedit_slicer_" \o a.cut_axis \o ".tcl")
        convert(i) ==
            [kind |-> "cmd", png_file |-> stem(i) \o ".png",
             argv |-> <<"convert", stem(i) \o ".rgb", stem(i) \o ".png">>]
    IN <<Cmd(<<"tkmedit", a.sid, "nu.mgz", "-tcl", path_script>>)>>
       \o [i \in 1..Len(a.slices) |-> convert(i)]

\* filetools.get_or_check_freesurfer_subjects_dir: ret is <<the directory>>
get_or_check_freesurfer_subjects_dir(P, a) ==
    IF a.subjects_dir # None
    THEN IF ~a.subjects_isdir
         THEN Raise(P, "ValueError",
                    "Argument 'subjects_dir' refers to non existing "
                        \o "directory: " \o a.subjects_dir[1] \o ".")
         ELSE [P |-> P, exc |-> None, ret |-> a.subjects_dir]
    ELSE IF "SUBJECTS_DIR" \in DOMAIN P.os_environ
    THEN IF ~a.subjects_isdir
         THEN Raise(P, "ValueError",
                    "Environment variable 'SUBJECTS_DIR' refers to non "
                        \o "existing directory: "
                        \o P.os_environ["SUBJECTS_DIR"])
         ELSE [P |-> P, exc |-> None,
               ret |-> Some(P.os_environ["SUBJECTS_DIR"])]
    ELSE Raise(P, "ValueError",
               "Either set the FreeSurfer SUBJECTS_DIR environment variable "
                   \o "or set the 'subjects_dir' argument.")

\* the directory tempfile.mkdtemp makes for recon_all_custom_wm_mask
TempDir == [dir |-> "/tmp", name |-> "recon_all_custom_wm_mask_0"]

\* cortical.recon_all_custom_wm_mask up to its first command: ret is
\* <<subjects_dir>> once the temporary directory is made
recon_all_custom_wm_mask_enter(P, a) ==
    LET checked(d) ==
            IF d.exc # None THEN d
            ELSE IF ~a.subject_isdir
            THEN Raise(d.P, "ValueError",
                       "Directory does not exist: "
                           \o join(d.ret[1], a.subject_id))
            ELSE [P |-> [d.P EXCEPT !.files = @ \cup {TempDir}],
                  exc |-> None, ret |-> d.ret]
    IN checked(get_or_check_freesurfer_subjects_dir(P, a))

\* recon_all_custom_wm_mask that removes the temporary directory before it
\* runs mri_convert
recon_all_custom_wm_mask_cmds_clean_first(a, subjects_dir) ==
    LET subject_dir == join(subjects_dir, a.subject_id)
        mri == join(subject_dir, "mri")
        temp_dir == join(TempDir.dir, TempDir.name)
        wm_mask_0_110 == join(temp_dir, "wm_mask_0_110.nii.gz")
        wm_seg_mgz == join(mri, "wm.seg.mgz")
        calc == [kind |-> "cmd",
                 argv |-> <<"mris_calc", "-o", wm_mask_0_110, a.wm_mask,
                            "mul", "110">>,
                 writes |-> {[dir |-> temp_dir,
                              name |-> "wm_mask_0_110.nii.gz"]},
                 rmtree |-> temp_dir]
    IN <<IF a.keep_orig
         THEN calc @@ [move |-> [src |-> [dir |-> mri, name |-> "wm.seg.mgz"],
                                 dst |-> [dir |-> mri,
                                          name |-> "wm.seg.orig.mgz"]]]
         ELSE calc,
         [kind |-> "cmd",
          argv |-> <<"mri_convert", wm_mask_0_110, wm_seg_mgz, "-odt",
                     "uchar">>,
          writes |-> {[dir |-> mri, name |-> "wm.seg.mgz"]}],
         [kind |-> "cmd",
          argv |-> <<"recon-all", "-autorecon2-wm", "-autorecon3", "-s",
                     a.subject_id>>,
          subjects_dir |-> Some(subjects_dir),
          subject_dir |-> subject_dir]>>

\* cortical.recon_all_custom_wm_mask: the three commands, each with what the
\* command writes when it succeeds and what the function does before the
\* next command: the move of wm.seg.mgz after mris_calc, the removal of the
\* temporary directory after mri_convert
recon_all_custom_wm_mask_cmds(a, subjects_dir) ==
    LET subject_dir == join(subjects_dir, a.subject_id)
        mri == join(subject_dir, "mri")
        temp_dir == join(TempDir.dir, TempDir.name)
        wm_mask_0_110 == join(temp_dir, "wm_mask_0_110.nii.gz")
        wm_seg_mgz == join(mri, "wm.seg.mgz")
        calc == [kind |-> "cmd",
                 argv |-> <<"mris_calc", "-o", wm_mask_0_110, a.wm_mask,
                            "mul", "110">>,
                 writes |-> {[dir |-> temp_dir,
                              name |-> "wm_mask_0_110.nii.gz"]}]
    IN <<IF a.keep_orig
         THEN calc @@ [move |-> [src |-> [dir |-> mri, name |-> "wm.seg.mgz"],
                                 dst |-> [dir |-> mri,
                                          name |-> "wm.seg.orig.mgz"]]]
         ELSE calc,
         [kind |-> "cmd",
          argv |-> <<"mri_convert", wm_mask_0_110, wm_seg_mgz, "-odt",
                     "uchar">>,
          writes |-> {[dir |-> mri, name |-> "wm.seg.mgz"]},
          rmtree |-> temp_dir],
         [kind |-> "cmd",
          argv |-> <<"recon-all", "-autorecon2-wm", "-autorecon3", "-s",
                     a.subject_id>>,
          subjects_dir |-> Some(subjects_dir),
          subject_dir |-> subject_dir]>>

AXIS_NAME == [C |-> "coronal", A |-> "axial", S |-> "sagittal"]

\* fmri.mkpreproc_sess with its default options: the three commands, the
\* first one with the FSL environment, the last one followed by the writing
\* of bbr_sum.txt
mkpreproc_sess_cmds(a) ==
    LET sess == IF a.sessid_isfile THEN <<"-sf", a.sessid>>
                ELSE <<"-s", a.sessid>>
    IN <<[kind |-> "cmd",
          argv |-> <<"preproc-sess", "-d", a.outdir, "-fsd", "bold",
                     "-fwhm", "5.0", "-surface", "fsaverage", a.surface>>
                   \o sess \o <<"-per-run", "-update", "-mni305-2mm">>,
          env |-> a.fslconfig],
         Cmd(<<"plot-twf-sess", "-d", a.outdir, "-fsd", "bold", "-mc">>
                 \o sess),
         [kind |-> "cmd",
          argv |-> <<"tkregister-sess", "-d", a.outdir, "-fsd", "bold",
                     "-per-run", "-bbr-sum">> \o sess,
          writes |-> {[dir |-> a.outdir, name |-> "bbr_sum.txt"]}]>>

\* fmri.mkmodel_sess with its default options and nconditions given: for
\* each space the analysis command, then one contrast command per contrast
\* of the contrasts file, run with os.environ as env
mkmodel_sess_cmds(a) ==
    LET analysis_name(space) == "odd.even.sm5.0." \o space
        analysis(space) ==
            Cmd(<<"mkanalysis-sess", "-fsd", "bold", "-paradigm",
                  "odd.even.par", "-analysis", analysis_name(space), "-TR",
                  str(a.tr), "-force", "-fwhm", "5.0">>
                \o (IF space \in {"lh", "rh"}
                    THEN <<"-surface", "fsaverage", space>>
                    ELSE <<"-mni305">>)
                \o <<"-per-run", "-mni305", "2", "-event-related",
                     "-spmhrf", "0", "-nconditions", str(a.nconditions),
                     "-polyfit", "2", "-nskip", "4", "-mcextreg">>)
        contrast(space, c) ==
            [kind |-> "cmd",
             argv |-> <<"mkcontrast-sess", "-debug", "-analysis",
                        analysis_name(space), "-contrast", c.name, "-ncond",
                        str(a.nconditions), "-wcond">> \o c.wcond,
             env |-> "os.environ"]
        for(space) ==
            <<analysis(space)>>
            \o [i \in 1..Len(a.contrasts) |-> contrast(space, a.contrasts[i])]
    IN for("lh") \o for("rh") \o for("mni305")

----------------------------------------------------------------------------
(* Input sets *)

StdoutToks == {"export", "PWD", "A", "=", " ", "'", "\n"}
EnvKeys == {"PATH", "LANG"}
ValChars == {"a", ":"}

\* the dicts over EnvKeys whose values are short strings
EnvSet ==
    UNION {[ks -> StrsUpTo(ValChars, MaxValLen)] : ks \in SUBSET EnvKeys}

\* the same with a single value for LANG
AssocEnvSet == {m \in EnvSet : "LANG" \in DOMAIN m => m["LANG"] = "a"}

----------------------------------------------------------------------------
(* The parser, the merger and the two groupings, each run on its own *)

ParseIdle == stdout = <<>> /\ environ_ret = None /\ environ_exc = None
ConcatIdle ==
    heap = <<>> /\ concat_ret = None /\ ncalls = 0 /\ before = <<>>
AssocIdle == abc = <<>> /\ lhs = <<>> /\ rhs = <<>>

ProcIdle ==
    /\ os_environ = <<>> /\ links = {} /\ fsfiles = {} /\ cwd = "/"
    /\ wrapper = None /\ call = None
    /\ frame = None /\ raised = None /\ result = None /\ spawned = <<>>
    /\ nops = 0 /\ nreads = 0 /\ nwarn = 0 /\ base_env = None

parseVars == <<stdout, environ_ret, environ_exc>>
concatVars == <<heap, concat_ret, ncalls, before>>
assocVars == <<abc, lhs, rhs>>

\* one call of environment(): the subshell prints stdout and exits with rc
CallEnvironment ==
    /\ environ_ret = None /\ environ_exc = None
    /\ \E rc \in {0, 1}, err \in {"", "No such file"} :
          LET r == environment(stdout, err, rc)
          IN environ_ret' = r.ret /\ environ_exc' = r.exc
    /\ UNCHANGED <<stdout, concatVars, assocVars, procVars>>

InitParse ==
    /\ stdout \in SeqsUpTo(StdoutToks, MaxStdoutLen)
    /\ environ_ret = None /\ environ_exc = None
    /\ ConcatIdle /\ AssocIdle /\ ProcIdle

NextParse == CallEnvironment

SpecParse == InitParse /\ [][NextParse]_vars

\* one call concat_environment(env1, env2) on the two dict objects
CallConcat ==
    /\ ncalls < MaxConcatCalls
    /\ LET r == concat_environment(heap, "env1", "env2")
       IN /\ heap' = r.heap
          /\ concat_ret' = Some(r.ret)
    /\ before' = heap
    /\ ncalls' = ncalls + 1
    /\ UNCHANGED <<parseVars, assocVars, procVars>>

InitConcat ==
    /\ heap \in [{"env1", "env2"} -> EnvSet]
    /\ concat_ret = None /\ ncalls = 0 /\ before = <<>>
    /\ ParseIdle /\ AssocIdle /\ ProcIdle

NextConcat == CallConcat

SpecConcat == InitConcat /\ [][NextConcat]_vars

\* (a merged with b) merged with c, and a merged with (b merged with c), each
\* merge on fresh copies
LeftFirst ==
    /\ lhs.stage = 0
    /\ lhs' = [stage |-> 1, val |-> concat_value(abc.a, abc.b)]
    /\ UNCHANGED <<abc, rhs, parseVars, concatVars, procVars>>

LeftSecond ==
    /\ lhs.stage = 1
    /\ lhs' = [stage |-> 2, val |-> concat_value(lhs.val, abc.c)]
    /\ UNCHANGED <<abc, rhs, parseVars, concatVars, procVars>>

RightFirst ==
    /\ rhs.stage = 0
    /\ rhs' = [stage |-> 1, val |-> concat_value(abc.b, abc.c)]
    /\ UNCHANGED <<abc, lhs, parseVars, concatVars, procVars>>

RightSecond ==
    /\ rhs.stage = 1
    /\ rhs' = [stage |-> 2, val |-> concat_value(abc.a, rhs.val)]
    /\ UNCHANGED <<abc, lhs, parseVars, concatVars, procVars>>

InitAssoc ==
    /\ abc \in [{"a", "b", "c"} -> AssocEnvSet]
    /\ lhs = [stage |-> 0, val |-> <<>>]
    /\ rhs = [stage |-> 0, val |-> <<>>]
    /\ ParseIdle /\ ConcatIdle /\ ProcIdle

NextAssoc == LeftFirst \/ LeftSecond \/ RightFirst \/ RightSecond

SpecAssoc == InitAssoc /\ [][NextAssoc]_vars

----------------------------------------------------------------------------
(* A process that builds wrappers and runs them *)

SetProc(P) ==
    /\ os_environ' = P.os_environ
    /\ links' = P.links
    /\ fsfiles' = P.files
    /\ cwd' = P.cwd
    /\ spawned' = P.spawned
    /\ nreads' = P.nreads
    /\ nwarn' = P.nwarn
    /\ base_env' = P.base_env

\* the process state at the start of a top-level call
Fresh == [Proc EXCEPT !.spawned = <<>>]

ShFiles == {FS6, FS5, OLD, PLAIN, BROKEN, MISSING}
Cmds == {<<"recon-all", "-all">>, <<"tkmedit", "s1">>, <<>>}
EnvArgs ==
    {[env |-> None, fsl_env |-> None],
     [env |-> Some([SUBJECTS_DIR |-> "/env/subjects", PATH |-> "/env/bin"]),
      fsl_env |-> None],
     [env |-> None, fsl_env |-> Some([FSLDIR |-> "/fsl", PATH |-> "/fsl/bin"])]}
SubjectsDirArgs == {None, Some("/arg/subjects")}
OsEnvirons ==
    {<<>>,
     [SUBJECTS_DIR |-> "/proc/subjects", DISPLAY |-> ":0"],
     [FREESURFER_HOME |-> "/two"]}

\* what the two processes of a wrapper call may do
Outcomes ==
    {[which |-> 0, rc |-> 0, out |-> "out", err |-> "err"],
     [which |-> 0, rc |-> 1, out |-> "out", err |-> "err"],
     [which |-> 1, rc |-> 0, out |-> "", err |-> ""]}

\* w = FSWrapper(cmd, shfile, env, subjects_dir, add_fsl_env)
NewWrapper ==
    /\ frame = None /\ nops < MaxOps
    /\ \E cmd \in Cmds, shfile \in ShFiles, ea \in EnvArgs,
          subjects_dir \in SubjectsDirArgs :
          \E r \in {FSWrapper_init(Fresh, cmd, shfile, ea.env, subjects_dir,
                                    ea.fsl_env)} :
             /\ SetProc(r.P)
             /\ wrapper' = IF r.exc = None THEN r.ret ELSE wrapper
             /\ raised' = r.exc
             /\ call' = Some([fn |-> "FSWrapper",
                              args |-> [cmd |-> cmd, shfile |-> shfile,
                                        env |-> ea.env,
                                        subjects_dir |-> subjects_dir,
                                        fsl_env |-> ea.fsl_env]])
    /\ nops' = nops + 1
    /\ result' = None
    /\ UNCHANGED <<frame, parseVars, concatVars, assocVars>>

\* w()
CallWrapper ==
    /\ frame = None /\ nops < MaxOps /\ wrapper # None
    /\ \E o \in Outcomes :
          \E r \in {FSWrapper_call(Fresh, wrapper[1], o)} :
             /\ SetProc(r.P)
             /\ wrapper' = r.ret
             /\ raised' = r.exc
    /\ call' = Some([fn |-> "FSWrapper.__call__", args |-> <<>>])
    /\ nops' = nops + 1
    /\ result' = None
    /\ UNCHANGED <<frame, parseVars, concatVars, assocVars>>

Init ==
    /\ os_environ \in OsEnvirons
    /\ links = {} /\ fsfiles = {} /\ cwd = "/home"
    /\ wrapper = None /\ call = None
    /\ frame = None /\ raised = None /\ result = None /\ spawned = <<>>
    /\ nops = 0 /\ nreads = 0 /\ nwarn = 0 /\ base_env = None
    /\ ParseIdle /\ ConcatIdle /\ AssocIdle

Next == NewWrapper \/ CallWrapper

Spec == Init /\ [][Next]_vars

----------------------------------------------------------------------------
(* A process that calls one domain function *)

\* FSWrapper(cmd, shfile=shfile, subjects_dir=subjects_dir)() that runs a
\* failed call a second time
run_command_retry(P, cmd, shfile, subjects_dir, o) ==
    LET again(c, r) ==
            IF r.exc # None THEN FSWrapper_call(r.P, c.ret[1], o) ELSE r
        called(c) ==
            IF c.exc # None THEN c
            ELSE again(c, FSWrapper_call(c.P, c.ret[1], o))
    IN called(FSWrapper_init(P, cmd, shfile, None, subjects_dir, None))

\* recon = FSWrapper(cmd, shfile=shfile, subjects_dir=subjects_dir); recon()
run_command(P, cmd, shfile, subjects_dir, o) ==
    LET \* c is what the construction did
        called(c) ==
            IF c.exc # None THEN c ELSE FSWrapper_call(c.P, c.ret[1], o)
    IN called(FSWrapper_init(P, cmd, shfile, None, subjects_dir, None))

\* recon = FSWrapper([], shfile=fsconfig); recon.cmd = cmd; recon() of
\* resample_cortical_surface, the command chosen by recon.version
run_resample(P, a, step, shfile, o) ==
    LET called(c) ==
            IF c.exc # None THEN c
            ELSE FSWrapper_call(
                     c.P,
                     [c.ret[1] EXCEPT
                         !.cmd = resample_cortical_surface_cmd(
                                     a, step, c.ret[1].version)],
                     o)
    IN called(FSWrapper_init(P, <<>>, shfile, None, None, None))

\* env = <what the step says>; FSWrapper(cmd, shfile=shfile, env=env,
\* subjects_dir=subjects_dir)(): the env argument is os.environ, or the
\* result of environment(<script>) computed just before
run_command_env(P, step, shfile, subjects_dir, o) ==
    LET called(c) ==
            IF c.exc # None THEN c ELSE FSWrapper_call(c.P, c.ret[1], o)
        \* e is what the evaluation of the env argument did
        built(e) ==
            IF e.exc # None THEN e
            ELSE called(FSWrapper_init(e.P, step.argv, shfile, e.ret,
                                       subjects_dir, None))
    IN built(IF step.env = "os.environ"
             THEN [P |-> P, exc |-> None, ret |-> Some(P.os_environ)]
             ELSE run_environment(P, step.env, <<>>))

\* what follows the command of a step that succeeded, up to the next
\* command: the files the command wrote, then shutil.move and shutil.rmtree
\* of the function.  c is what the command did
after_command(c, step) ==
    LET written == IF "writes" \in DOMAIN step
                   THEN c.P.files \cup step.writes ELSE c.P.files
        removed(F) ==
            IF "rmtree" \in DOMAIN step
            THEN {f \in F : /\ join(f.dir, f.name) # step.rmtree
                            /\ f.dir # step.rmtree}
            ELSE F
        moved(F) ==
            IF "move" \notin DOMAIN step
            THEN [c EXCEPT !.P.files = removed(F)]
            ELSE IF step.move.src \notin F
            THEN [P |-> [c.P EXCEPT !.files = F],
                  exc |-> Some([type |-> "IOError",
                                message |->
                                    join(step.move.src.dir,
                                         step.move.src.name)]),
                  ret |-> c.ret]
            ELSE [c EXCEPT
                     !.P.files =
                         removed((F \ {step.move.src})
                                     \cup {step.move.dst})]
    IN moved(written)

\* one step of the running function: its command, and when the command
\* succeeded what follows it
run_step(P, a, step, fr, o) ==
    LET subjects_dir == IF "subjects_dir" \in DOMAIN step
                        THEN step.subjects_dir ELSE fr.subjects_dir
        after(c) == IF c.exc # None THEN c ELSE after_command(c, step)
    IN after(IF step.kind = "resample"
             THEN run_resample(P, a, step, fr.fsconfig, o)
             ELSE IF "env" \in DOMAIN step
             THEN run_command_env(P, step, fr.fsconfig, subjects_dir, o)
             ELSE run_command(P, step.argv, fr.fsconfig, subjects_dir, o))

\* the locals of a running function: the commands still to run, the
\* configuration script and subjects_dir given to each wrapper, the links to
\* remove and the SUBJECTS_DIR to restore once the commands have run, the
\* output list built so far, and for the functions that change directory
\* the directory to go back to (pwd) and the directory to make (log_dir)
\* once the commands have run
Frame(cmds, fsconfig, subjects_dir, symlinks, fscwd) ==
    [cmds |-> cmds, fsconfig |-> fsconfig, subjects_dir |-> subjects_dir,
     symlinks |-> symlinks, fscwd |-> fscwd, outputs |-> <<>>,
     pwd |-> None, log_dir |-> None]

\* the function is entered with the arguments a and runs up to its first
\* command, leaving the process state P: it raises exc, or goes on with the
\* locals fr
Enter(fn, a, exc, fr, P) ==
    /\ call = None /\ frame = None
    /\ call' = Some([fn |-> fn, args |-> a, environ |-> os_environ,
                     links |-> links, cwd |-> cwd])
    /\ nops' = nops + 1
    /\ result' = None
    /\ raised' = exc
    /\ frame' = IF exc # None THEN None ELSE Some(fr)
    /\ SetProc(P)
    /\ UNCHANGED <<wrapper, parseVars, concatVars, assocVars>>

Hemis == {"lh", "rh", "xx"}
IcoOrders == {-1, 0, 3, 7, 8}
FsConfigs == {FS6, FS5, BROKEN}
OrdersArgs == {<<7>>, <<0, 7>>, <<3, -1>>, <<8, 3>>, <<>>}

\* mri_surf2surf(hemi, input_surface_file, output_surface_file, ico_order,
\*               fsdir, sid, fsconfig)
Start_mri_surf2surf ==
    \E hemi \in Hemis, ico_order \in IcoOrders, fsconfig \in FsConfigs,
       input_isfile \in BOOLEAN, fsdir_isdir \in BOOLEAN :
        LET a == [hemi |-> hemi, ico_order |-> ico_order,
                  input_surface_file |-> "/in/thickness",
                  output_surface_file |-> "/out/thickness.mgz",
                  fsdir |-> "/subjects", sid |-> "s1",
                  fsconfig |-> fsconfig,
                  input_isfile |-> input_isfile,
                  fsdir_isdir |-> fsdir_isdir]
        IN Enter("mri_surf2surf", a, mri_surf2surf_check(a),
                 Frame(<<Cmd(mri_surf2surf_cmd(a))>>, fsconfig, None, {},
                       None),
                 Fresh)

\* mri_vol2surf(hemi, volume_file, out_texture_file, ico_order, dat_file,
\*              fsdir, sid, surface_name, fsconfig)
Start_mri_vol2surf ==
    \E hemi \in Hemis, ico_order \in IcoOrders, fsconfig \in FsConfigs,
       surface_name \in {"white", "inflated"},
       files \in {"both", "no volume", "no dat"}, fsdir_isdir \in BOOLEAN :
        LET a == [hemi |-> hemi, ico_order |-> ico_order,
                  volume_file |-> "/in/vol.nii",
                  out_texture_file |-> "/out/tex.mgz",
                  dat_file |-> "/in/reg.dat",
                  fsdir |-> "/subjects", sid |-> "s1",
                  surface_name |-> surface_name, fsconfig |-> fsconfig,
                  volume_isfile |-> files # "no volume",
                  dat_isfile |-> files # "no dat",
                  fsdir_isdir |-> fsdir_isdir]
        IN Enter("mri_vol2surf", a, mri_vol2surf_check(a),
                 Frame(<<Cmd(mri_vol2surf_cmd(a))>>, fsconfig, None, {},
                       None),
                 Fresh)

\* midgray_surface(hemi, outdir, fsdir, sid, fsconfig)
Start_midgray_surface ==
    \E hemi \in Hemis, fsconfig \in FsConfigs, white_isfile \in BOOLEAN,
       fsdir_isdir \in BOOLEAN :
        LET a == [hemi |-> hemi, outdir |-> "/out", fsdir |-> "/subjects",
                  sid |-> "s1", fsconfig |-> fsconfig,
                  white_isfile |-> white_isfile,
                  fsdir_isdir |-> fsdir_isdir]
        IN Enter("midgray_surface", a, midgray_surface_check(a),
                 Frame(midgray_surface_cmds(a), fsconfig, None, {}, None),
                 Fresh)

\* interhemi_surfreg(hemi, outdir, fsdir, sid, template_file, destname,
\*                   fsconfig): the links are made and SUBJECTS_DIR is set
\* before the first command
Start_interhemi_surfreg ==
    \E hemi \in Hemis, fsconfig \in FsConfigs, subjfsdir_isdir \in BOOLEAN,
       outdir_isdir \in BOOLEAN :
        LET a == [hemi |-> hemi, outdir |-> "/out", fsdir |-> "/subjects",
                  sid |-> "s1", destname |-> "surfreg",
                  fsconfig |-> fsconfig,
                  subjfsdir_isdir |-> subjfsdir_isdir,
                  outdir_isdir |-> outdir_isdir]
            wdir == join(a.outdir, a.destname)
            dest_template_file == join(a.outdir, "fsaverage_sym")
            symlinks == {dest_template_file}
                            \cup interhemi_surfreg_destpaths(a)
        IN Enter("interhemi_surfreg", a, interhemi_surfreg_check(a),
                 Frame(interhemi_surfreg_cmds(a), fsconfig, None, symlinks,
                       None),
                 IF interhemi_surfreg_check(a) # None THEN Fresh
                 ELSE [Fresh EXCEPT
                          !.links = @ \cup symlinks,
                          !.os_environ = ("SUBJECTS_DIR" :> a.outdir) @@ @])

\* resample_cortical_surface(fsdir, regex, outdir, destdirname, orders,
\*                           surface_name, fsconfig): the regex finds the
\* surface of subject s1, hemisphere lh, or nothing
Start_resample_cortical_surface ==
    \E orders \in OrdersArgs, fsconfig \in FsConfigs,
       surface_name \in {"white", "sphere"}, nsurfaces \in {0, 1},
       annot_isfile \in BOOLEAN, dirs \in {"both", "no fsdir", "no outdir"} :
        LET a == [fsdir |-> "/subjects", outdir |-> "/out",
                  destdirname |-> "convert", orders |-> orders,
                  surface_name |-> surface_name, fsconfig |-> fsconfig,
                  nsurfaces |-> nsurfaces, annot_isfile |-> annot_isfile,
                  fsdir_isdir |-> dirs # "no fsdir",
                  outdir_isdir |-> dirs # "no outdir"]
        IN Enter("resample_cortical_surface", a,
                 resample_cortical_surface_check(a),
                 Frame(IF nsurfaces = 0 THEN <<>>
                       ELSE resample_cortical_surface_steps(a, orders),
                       fsconfig, None, {}, None),
                 Fresh)

\* recon_all(fsdir, anatfile, sid, reconstruction_stage, resume, t2file,
\*           flairfile, fsconfig)
Start_recon_all ==
    \E reconstruction_stage \in {"all", "autorecon1", "WRONG"},
       resume \in BOOLEAN, t2file \in {None, Some("/in/t2.nii")},
       flairfile \in {None, Some("/in/flair.nii")},
       fsconfig \in FsConfigs, fsdir_isdir \in BOOLEAN :
        LET a == [fsdir |-> "/subjects", anatfile |-> "/in/t1.nii",
                  sid |-> "s1",
                  reconstruction_stage |-> reconstruction_stage,
                  resume |-> resume, t2file |-> t2file,
                  flairfile |-> flairfile, fsconfig |-> fsconfig,
                  fsdir_isdir |-> fsdir_isdir]
        IN Enter("recon_all", a, recon_all_check(a),
                 Frame(<<Cmd(recon_all_cmd(a))>>, fsconfig, None, {}, None),
                 Fresh)

\* the links of recon_all_longitudinal, made one after the other: the first
\* destination that exists already stops the function with OSError
RECURSIVE recon_all_longitudinal_symlinks(_, _, _)
recon_all_longitudinal_symlinks(P, a, tps) ==
    IF tps = <<>> THEN [P |-> P, exc |-> None, ret |-> None]
    ELSE LET dst_path == join(a.outdir, a.subject_id \o "_" \o tps[1])
         IN IF dst_path \in P.links
            THEN Raise(P, "OSError", "File exists: " \o dst_path)
            ELSE recon_all_longitudinal_symlinks(
                     [P EXCEPT !.links = @ \cup {dst_path}], a, Tail(tps))

\* recon_all_longitudinal(outdir, subject_id, subjects_dirs, timepoints,
\*                        fsconfig)
Start_recon_all_longitudinal ==
    \E subjects_dirs \in {<<"/tp1">>, <<"/tp1", "/tp2">>},
       timepoints \in {None, Some(<<"a">>), Some(<<"a", "b">>)},
       fsconfig \in FsConfigs, subject_dirs_exist \in BOOLEAN :
        LET a == [outdir |-> "/out", subject_id |-> "s1",
                  subjects_dirs |-> subjects_dirs,
                  timepoints |-> timepoints, fsconfig |-> fsconfig,
                  subject_dirs_exist |-> subject_dirs_exist]
            check == recon_all_longitudinal_check(a)
        IN \E l \in {IF check # None
                     THEN [P |-> Fresh, exc |-> check, ret |-> None]
                     ELSE recon_all_longitudinal_symlinks(
                              Fresh, a,
                              recon_all_longitudinal_timepoints(a))} :
           Enter("recon_all_longitudinal", a, l.exc,
                 Frame(recon_all_longitudinal_cmds(a), fsconfig,
                       Some(a.outdir), {}, None),
                 l.P)

\* aparcstats2table(fsdir, outdir, fsconfig): SUBJECTS_DIR is saved and
\* overwritten before the first command
Start_aparcstats2table ==
    \E fsconfig \in FsConfigs, fsdir_isdir \in BOOLEAN,
       outdir_isdir \in BOOLEAN :
        LET a == [fsdir |-> "/subjects", outdir |-> "/out",
                  subjects |-> <<"s1">>, fsconfig |-> fsconfig,
                  fsdir_isdir |-> fsdir_isdir,
                  outdir_isdir |-> outdir_isdir]
            fscwd == IF "SUBJECTS_DIR" \in DOMAIN os_environ
                     THEN Some(os_environ["SUBJECTS_DIR"]) ELSE None
        IN Enter("aparcstats2table", a, aparcstats2table_check(a),
                 Frame(aparcstats2table_cmds(a), fsconfig, None, {}, fscwd),
                 IF aparcstats2table_check(a) # None THEN Fresh
                 ELSE [Fresh EXCEPT
                          !.os_environ = ("SUBJECTS_DIR" :> a.fsdir) @@ @])

\* asegstats2table(fsdir, outdir, fsconfig)
Start_asegstats2table ==
    \E fsconfig \in FsConfigs, fsdir_isdir \in BOOLEAN,
       outdir_isdir \in BOOLEAN :
        LET a == [fsdir |-> "/subjects", outdir |-> "/out",
                  subjects |-> <<"s1">>, fsconfig |-> fsconfig,
                  fsdir_isdir |-> fsdir_isdir,
                  outdir_isdir |-> outdir_isdir]
            fscwd == IF "SUBJECTS_DIR" \in DOMAIN os_environ
                     THEN Some(os_environ["SUBJECTS_DIR"]) ELSE None
        IN Enter("asegstats2table", a, aparcstats2table_check(a),
                 Frame(asegstats2table_cmds(a), fsconfig, None, {}, fscwd),
                 IF aparcstats2table_check(a) # None THEN Fresh
                 ELSE [Fresh EXCEPT
                          !.os_environ = ("SUBJECTS_DIR" :> a.fsdir) @@ @])

\* tractstats2table(fsdir, outdir, fsconfig)
Start_tractstats2table ==
    \E fsconfig \in FsConfigs, fsdir_isdir \in BOOLEAN,
       outdir_isdir \in BOOLEAN, npathways \in 0..2 :
        LET found ==
                <<[name |-> "lh.cst",
                   files |-> <<"/subjects/s1/dpath/lh.cst/"
                                   \o "pathstats.overall.txt">>],
                  [name |-> "rh.cst",
                   files |-> <<"/subjects/s1/dpath/rh.cst/"
                                   \o "pathstats.overall.txt",
                               "/subjects/s2/dpath/rh.cst/"
                                   \o "pathstats.overall.txt">>]>>
            a == [fsdir |-> "/subjects", outdir |-> "/out",
                  pathwayfiles |-> SubSeq(found, 1, npathways),
                  fsconfig |-> fsconfig, fsdir_isdir |-> fsdir_isdir,
                  outdir_isdir |-> outdir_isdir]
            fscwd == IF "SUBJECTS_DIR" \in DOMAIN os_environ
                     THEN Some(os_environ["SUBJECTS_DIR"]) ELSE None
        IN Enter("tractstats2table", a, aparcstats2table_check(a),
                 Frame(tractstats2table_cmds(a), fsconfig, None, {}, fscwd),
                 IF aparcstats2table_check(a) # None THEN Fresh
                 ELSE [Fresh EXCEPT
                          !.os_environ = ("SUBJECTS_DIR" :> a.fsdir) @@ @])

\* slice_aparc_overlay(fsdir, sid, outdir, cut_axis, slice_interval, erase,
\*                     fsconfig)
Start_slice_aparc_overlay ==
    /\ call = None
    /\ \E cut_axis \in {"C", "S", "X"}, erase \in BOOLEAN,
          fsconfig \in FsConfigs, subjdir_isdir \in BOOLEAN,
          outdir_isdir \in BOOLEAN, anat_isfile \in BOOLEAN,
          slices \in {<<>>, <<"0", "1">>} :
           LET a == [fsdir |-> "/subjects", sid |-> "s1", outdir |-> "/out",
                     cut_axis |-> cut_axis, erase |-> erase,
                     fsconfig |-> fsconfig, slices |-> slices,
                     subjdir_isdir |-> subjdir_isdir,
                     outdir_isdir |-> outdir_isdir,
                     anat_isfile |-> anat_isfile]
           IN \E e \in {slice_aparc_overlay_enter(Fresh, a)} :
                 Enter("slice_aparc_overlay", a, e.exc,
                       Frame(slice_aparc_overlay_cmds(a), fsconfig, None, {},
                             None),
                       e.P)

\* recon_all_custom_wm_mask(subject_id, wm_mask, keep_orig, subjects_dir,
\*                          temp_dir, fsconfig)
Start_recon_all_custom_wm_mask ==
    /\ call = None
    /\ \E keep_orig \in BOOLEAN, subjects_dir \in {None, Some("/subjects")},
          fsconfig \in FsConfigs,
          dirs \in {"both", "no subjects_dir", "no subject"} :
           LET a == [subject_id |-> "s1", wm_mask |-> "/in/wm.nii.gz",
                     keep_orig |-> keep_orig, subjects_dir |-> subjects_dir,
                     temp_dir |-> None, fsconfig |-> fsconfig,
                     subjects_isdir |-> dirs # "no subjects_dir",
                     subject_isdir |-> dirs = "both"]
           IN \E e \in {recon_all_custom_wm_mask_enter(Fresh, a)} :
                 Enter("recon_all_custom_wm_mask", a, e.exc,
                       Frame(IF e.exc # None THEN <<>>
                             ELSE recon_all_custom_wm_mask_cmds(a, e.ret[1]),
                             fsconfig, None, {}, None),
                       e.P)

\* mkpreproc_sess(sessid, outdir, fsdir, surface, fsconfig, fslconfig): the
\* working directory is changed before the check of the surface
Start_mkpreproc_sess ==
    /\ call = None
    /\ \E surface \in {"lh", "lhrh", "xx"}, sessid_isfile \in BOOLEAN,
          fsconfig \in FsConfigs, fslconfig \in {PLAIN, BROKEN} :
           LET a == [sessid |-> "sess01", outdir |-> "/out",
                     fsdir |-> "/subjects", surface |-> surface,
                     sessid_isfile |-> sessid_isfile,
                     fsconfig |-> fsconfig, fslconfig |-> fslconfig]
               pwd == cwd
           IN Enter("mkpreproc_sess", a,
                    IF surface \notin {"rh", "lh", "lhrh"}
                    THEN ValueError("Unknown '" \o surface
                                        \o "' preproc-sess surface.")
                    ELSE None,
                    [Frame(mkpreproc_sess_cmds(a), fsconfig, Some(a.fsdir),
                           {}, None)
                        EXCEPT !.pwd = Some(pwd),
                               !.log_dir = Some([dir |-> a.outdir,
                                                 name |-> "logs"])],
                    [Fresh EXCEPT !.cwd = a.outdir])

\* mkmodel_sess(outdir, tr, contrasts_file, nconditions, retinototy_design,
\*              fsconfig): contrasts is what the contrasts file holds, each
\* contrast with the weights of its conditions as the code prints them
Start_mkmodel_sess ==
    /\ call = None
    /\ \E contrasts_isfile \in BOOLEAN, retinototy_design \in BOOLEAN,
          fsconfig \in FsConfigs,
          contrasts \in {<<>>, <<[name |-> "odd",
                                  wcond |-> <<"1.0", "0.0">>]>>} :
           LET a == [outdir |-> "/out", tr |-> 2,
                     contrasts_file |-> "/in/contrasts.json",
                     nconditions |-> 2,
                     retinototy_design |-> retinototy_design,
                     contrasts_isfile |-> contrasts_isfile,
                     contrasts |-> contrasts, fsconfig |-> fsconfig]
               pwd == cwd
           IN Enter("mkmodel_sess", a,
                    IF ~contrasts_isfile
                    THEN ValueError("'" \o a.contrasts_file
                                        \o "' is not a valid file.")
                    ELSE IF retinototy_design
                    THEN Some([type |-> "NotImplementedError",
                               message |->
                                   "Selected design not yet supported."])
                    ELSE None,
                    [Frame(mkmodel_sess_cmds(a), fsconfig, None, {}, None)
                        EXCEPT !.pwd = Some(pwd),
                               !.log_dir = Some([dir |-> a.outdir,
                                                 name |-> "logs"])],
                    [Fresh EXCEPT !.cwd = a.outdir])

\* the script pyfreesurfer_quality_check from the making of the directory of
\* its first overlay (cut axis C) on: the directory is made when it is not
\* there, then slice_aparc_overlay is called on it with erase=False
Start_quality_check ==
    /\ call = None
    /\ \E fsconfig \in FsConfigs, anat_isfile \in BOOLEAN,
          slices \in {<<>>, <<"0", "1">>} :
           LET qcdir == join("/subjects/s1", "qc")
               axis == [dir |-> join(qcdir, AXIS_NAME["C"]),
                        name |-> "aparc_mesh"]
               made == [Fresh EXCEPT !.files = @ \cup {axis}]
               a == [fsdir |-> "/subjects", sid |-> "s1",
                     outdir |-> join(axis.dir, axis.name),
                     cut_axis |-> "C", erase |-> FALSE,
                     fsconfig |-> fsconfig, slices |-> slices,
                     subjdir_isdir |-> TRUE,
                     outdir_isdir |-> axis \in made.files,
                     anat_isfile |-> anat_isfile]
           IN \E e \in {slice_aparc_overlay_enter(made, a)} :
                 Enter("pyfreesurfer_quality_check", a, e.exc,
                       Frame(slice_aparc_overlay_cmds(a), fsconfig, None, {},
                             None),
                       e.P)

\* what a function appends to its output list around a command
Output(step) ==
    IF "midgray_file" \in DOMAIN step THEN <<step.midgray_file>>
    ELSE IF "png_file" \in DOMAIN step THEN <<step.png_file>>
    ELSE IF "long_id" \in DOMAIN step THEN <<step.long_id>>
    ELSE IF "statfile" \in DOMAIN step THEN <<step.statfile>>
    ELSE IF "subject_dir" \in DOMAIN step THEN <<step.subject_dir>>
    ELSE <<>>

\* the next command of a running function that restores SUBJECTS_DIR when
\* the command fails
RunCommand_restoring ==
    /\ frame # None /\ frame[1].cmds # <<>>
    /\ \E o \in Outcomes :
          \E fr \in {frame[1]}, step \in {frame[1].cmds[1]} :
          \E r \in {run_step(Proc, call[1].args, step, fr, o)} :
             /\ wrapper' = IF r.ret # None THEN r.ret ELSE wrapper
             /\ raised' = r.exc
             /\ IF r.exc # None
                THEN /\ frame' = None
                     /\ SetProc(IF fr.fscwd # None
                                THEN [r.P EXCEPT
                                         !.os_environ =
                                             ("SUBJECTS_DIR"
                                                  :> fr.fscwd[1]) @@ @]
                                ELSE r.P)
                ELSE /\ frame' = Some([fr EXCEPT
                                          !.cmds = Tail(@),
                                          !.outputs = @ \o Output(step)])
                     /\ SetProc(IF "surf_file" \in DOMAIN step
                                THEN [r.P EXCEPT
                                         !.links = @ \cup {step.surf_file}]
                                ELSE r.P)
    /\ UNCHANGED <<call, result, nops, parseVars, concatVars, assocVars>>

\* the next command of the running function: a wrapper is built and called,
\* and what the function does up to its next command is done; an exception
\* leaves the function at once, with what it did so far left as it is
RunCommand ==
    /\ frame # None /\ frame[1].cmds # <<>>
    /\ \E o \in Outcomes :
          \E fr \in {frame[1]}, step \in {frame[1].cmds[1]} :
          \E r \in {run_step(Proc, call[1].args, step, fr, o)} :
             /\ wrapper' = IF r.ret # None THEN r.ret ELSE wrapper
             /\ raised' = r.exc
             /\ IF r.exc # None
                THEN /\ frame' = None
                     /\ SetProc(r.P)
                ELSE /\ frame' = Some([fr EXCEPT
                                          !.cmds = Tail(@),
                                          !.outputs = @ \o Output(step)])
                     /\ SetProc(IF "surf_file" \in DOMAIN step
                                THEN [r.P EXCEPT
                                         !.links = @ \cup {step.surf_file}]
                                ELSE r.P)
    /\ UNCHANGED <<call, result, nops, parseVars, concatVars, assocVars>>

\* the list without its repeated elements
RECURSIVE unique(_)
unique(l) ==
    IF l = <<>> THEN <<>>
    ELSE LET rest == unique(SubSeq(l, 1, Len(l) - 1))
         IN IF \E i \in 1..(Len(l) - 1) : l[i] = l[Len(l)]
            THEN rest ELSE Append(rest, l[Len(l)])

\* the orders in the order sorted() gives to the files named after them:
\* the names differ by the order only, one digit each
sorted_orders(orders) == SortSeq(orders, LAMBDA x, y : x < y)

\* the value the function returns from its locals
ReturnValue(fn, a, fr) ==
    CASE fn = "midgray_surface" -> fr.outputs
      [] fn = "interhemi_surfreg" ->
             <<join(join(a.outdir, a.destname), "xhemi"),
               join(join(join(a.fsdir, a.sid), "surf"),
                    a.hemi \o ".fsaverage_sym.sphere.reg")>>
      [] fn = "resample_cortical_surface" ->
             LET levels == IF a.nsurfaces = 0 THEN <<>>
                           ELSE sorted_orders(a.orders)
                 annots == unique(levels)
             IN <<[i \in 1..Len(levels) |->
                      resample_convertfile(a, levels[i])],
                  [i \in 1..Len(annots) |->
                      resample_annotfile(a, annots[i])]>>
      [] fn = "recon_all" -> join(a.fsdir, a.sid)
      [] fn = "recon_all_custom_wm_mask" -> fr.outputs[1]
      [] fn = "mkpreproc_sess" ->
             \* the four globs of the function find nothing
             <<<<>>, <<>>, <<>>, join(a.outdir, "bbr_sum.txt"), <<>>>>
      [] fn = "mkmodel_sess" ->
             <<"odd.even.sm5.0.lh", "odd.even.sm5.0.rh",
               "odd.even.sm5.0.mni305">>
      [] fn = "recon_all_longitudinal" ->
             <<a.subject_id \o "_template_"
                   \o underscore_join(recon_all_longitudinal_timepoints(a)),
               fr.outputs>>
      [] fn \in {"aparcstats2table", "asegstats2table", "tractstats2table",
                  "slice_aparc_overlay"} -> fr.outputs
      [] OTHER -> None

\* the commands have all run: the function removes its links, restores
\* SUBJECTS_DIR when it had saved one, goes back to the directory it had
\* left, makes its log directory, and returns
Return ==
    /\ frame # None /\ frame[1].cmds = <<>>
    /\ links' = links \ frame[1].symlinks
    /\ cwd' = IF frame[1].pwd # None THEN frame[1].pwd[1] ELSE cwd
    /\ fsfiles' = IF frame[1].log_dir # None
                  THEN fsfiles \cup {frame[1].log_dir[1]}
                  ELSE fsfiles
    /\ os_environ' = IF frame[1].fscwd # None
                     THEN ("SUBJECTS_DIR" :> frame[1].fscwd[1]) @@ os_environ
                     ELSE os_environ
    /\ result' = Some(ReturnValue(call[1].fn, call[1].args, frame[1]))
    /\ raised' = None
    /\ frame' = None
    /\ UNCHANGED <<wrapper, call, spawned, nops, nreads, nwarn, base_env,
                   parseVars, concatVars, assocVars>>

\* the process before the call: FreeSurfer configured by an earlier wrapper
\* or not, SUBJECTS_DIR set or not, links left by earlier calls or not
ConfiguredEnviron ==
    FSWrapper_environment(
        [os_environ |-> <<>>, links |-> {}, files |-> {}, cwd |-> "/home",
         spawned |-> <<>>, nreads |-> 0, nwarn |-> 0, base_env |-> None],
        FS6).P.os_environ
PipeOsEnvirons ==
    {<<>>,
     [SUBJECTS_DIR |-> "/proc/subjects"],
     ("SUBJECTS_DIR" :> "/proc/subjects") @@ ConfiguredEnviron}
PipeLinks == {{}, {"/out/fsaverage_sym"}, {"/out/s1_1"}}
PipeFiles == {{}, {[dir |-> "/subjects/s1/mri", name |-> "wm.seg.mgz"]}}

InitPipe ==
    /\ os_environ \in PipeOsEnvirons
    /\ links \in PipeLinks
    /\ fsfiles \in PipeFiles
    /\ links = {} \/ fsfiles = {}
    /\ cwd = "/home"
    /\ wrapper = None /\ call = None
    /\ frame = None /\ raised = None /\ result = None /\ spawned = <<>>
    /\ nops = 0 /\ nreads = 0 /\ nwarn = 0 /\ base_env = None
    /\ ParseIdle /\ ConcatIdle /\ AssocIdle

NextPipe ==
    \/ Start_mri_surf2surf
    \/ Start_mri_vol2surf
    \/ Start_midgray_surface
    \/ Start_interhemi_surfreg
    \/ Start_resample_cortical_surface
    \/ Start_recon_all
    \/ Start_recon_all_longitudinal
    \/ Start_aparcstats2table
    \/ Start_asegstats2table
    \/ Start_tractstats2table
    \/ Start_slice_aparc_overlay
    \/ Start_recon_all_custom_wm_mask
    \/ Start_mkpreproc_sess
    \/ Start_mkmodel_sess
    \/ Start_quality_check
    \/ RunCommand
    \/ Return

SpecPipe == InitPipe /\ [][NextPipe]_vars

----------------------------------------------------------------------------
(* surftools.TriSurface: an array of shape (n, 3) is a sequence of n rows *)

\* one element of numpy.allclose(a, b): |a - b| <= atol + rtol * |b| with
\* atol = 1e-8 and rtol = 1e-5, both sides multiplied by 1e8
isclose(a, b) ==
    LET abs(x) == IF x >= 0 THEN x ELSE 0 - x
    IN 100000000 * abs(a - b) <= 1 + 1000 * abs(b)

\* numpy.allclose(a, b) on two arrays of rows: an array of one row is
\* broadcast to the rows of the other, other shapes must agree
allclose(a, b) ==
    LET rows(r, q) == \A k \in 1..3 : isclose(r[k], q[k])
    IN IF Len(a) = Len(b)
       THEN [exc |-> None,
             ret |-> Some(\A i \in 1..Len(a) : rows(a[i], b[i]))]
       ELSE IF Len(b) = 1
       THEN [exc |-> None,
             ret |-> Some(\A i \in 1..Len(a) : rows(a[i], b[1]))]
       ELSE IF Len(a) = 1
       THEN [exc |-> None,
             ret |-> Some(\A i \in 1..Len(b) : rows(a[1], b[i]))]
       ELSE [exc |-> ValueError("operands could not be broadcast together"),
             ret |-> None]

\* TriSurface.__init__: the new object
TriSurface_init(vertices, triangles, labels, metadata, inflated_vertices) ==
    [vertices |-> vertices,
     triangles |-> triangles,
     labels |-> IF labels = None THEN [i \in 1..Len(vertices) |-> 0]
                ELSE labels[1],
     metadata |-> metadata,
     inflated_vertices |-> inflated_vertices]

\* TriSurface.load(meshfile, inflatedmeshpath, annotfile), given what
\* read_geometry and read_annot find in the files: mesh is [vertices,
\* triangles], inflated is <<[vertices, triangles]>> or None, annot is
\* <<[labels, meta]>> or None
TriSurface_load(a) ==
    LET surf == TriSurface_init(
                    a.mesh.vertices, a.mesh.triangles,
                    IF a.annot # None THEN Some(a.annot[1].labels) ELSE None,
                    IF a.annot # None THEN Some(a.annot[1].meta) ELSE None,
                    IF a.inflated # None THEN Some(a.inflated[1].vertices)
                    ELSE None)
        compared(c) ==
            IF c.exc # None THEN c
            ELSE IF ~c.ret[1]
            THEN [exc |-> ValueError("'" \o a.meshfile \o "' and '"
                                     \o a.inflatedmeshpath
                                     \o "' do not represent the same "
                                     \o "surface."),
                  ret |-> None]
            ELSE [exc |-> None, ret |-> Some(surf)]
    IN IF a.inflated # None
       THEN compared(allclose(a.mesh.triangles, a.inflated[1].triangles))
       ELSE [exc |-> None, ret |-> Some(surf)]

\* the arrays the callers pass and the files hold: n vertices on a line,
\* triangles whose indices do or do not exist among them
Vertices(n, step) == [i \in 1..n |-> <<step * i, 0, 0>>]
TriangleRows == {<<0, 1, 2>>, <<2, 1, 0>>, <<1, 2, 3>>}
Meshes ==
    {[vertices |-> Vertices(n, 1), triangles |-> t] :
        n \in 2..MaxVert, t \in SeqsUpTo(TriangleRows, MaxTri)}
InflatedMeshes ==
    {[vertices |-> Vertices(n, 2), triangles |-> t] :
        n \in 2..MaxVert, t \in SeqsUpTo(TriangleRows, MaxTri)}

\* TriSurface(vertices, triangles, labels, metadata, inflated_vertices)
New_TriSurface ==
    /\ call = None
    /\ \E mesh \in Meshes, ninflated \in {0} \cup (2..MaxVert),
          labelled \in BOOLEAN :
          LET a == [vertices |-> mesh.vertices,
                    triangles |-> mesh.triangles,
                    labels |-> IF labelled
                               THEN Some([i \in 1..Len(mesh.vertices)
                                             |-> i - 1])
                               ELSE None,
                    metadata |-> None,
                    inflated_vertices |->
                        IF ninflated = 0 THEN None
                        ELSE Some(Vertices(ninflated, 2))]
          IN /\ call' = Some([fn |-> "TriSurface", args |-> a])
             /\ result' = Some(TriSurface_init(a.vertices, a.triangles,
                                               a.labels, a.metadata,
                                               a.inflated_vertices))
    /\ raised' = None
    /\ nops' = nops + 1
    /\ UNCHANGED <<os_environ, links, fsfiles, cwd, wrapper, frame, spawned,
                   nreads, nwarn, base_env, parseVars, concatVars,
                   assocVars>>

\* TriSurface.load(meshfile, inflatedmeshpath, annotfile)
Load_TriSurface ==
    /\ call = None
    /\ \E mesh \in Meshes, inflated \in {None} \cup
                                          {Some(m) : m \in InflatedMeshes},
          annotated \in BOOLEAN :
          LET a == [meshfile |-> "/surf/lh.white",
                    inflatedmeshpath |-> "/surf/lh.inflated",
                    mesh |-> mesh, inflated |-> inflated,
                    annot |-> IF annotated
                              THEN Some([labels |->
                                             [i \in 1..Len(mesh.vertices)
                                                 |-> 0],
                                         meta |-> <<>>])
                              ELSE None]
          IN \E r \in {TriSurface_load(a)} :
                /\ call' = Some([fn |-> "TriSurface.load", args |-> a])
                /\ result' = r.ret
                /\ raised' = r.exc
    /\ nops' = nops + 1
    /\ UNCHANGED <<os_environ, links, fsfiles, cwd, wrapper, frame, spawned,
                   nreads, nwarn, base_env, parseVars, concatVars,
                   assocVars>>

InitSurf == ProcIdle /\ ParseIdle /\ ConcatIdle /\ AssocIdle

NextSurf == New_TriSurface \/ Load_TriSurface

SpecSurf == InitSurf /\ [][NextSurf]_vars

----------------------------------------------------------------------------
(* Claims on the wrapper *)

IsWrapperCall == call # None /\ call[1].fn = "FSWrapper.__call__"
IsConstruction == call # None /\ call[1].fn = "FSWrapper"
Configured(env) == "FREESURFER_CONFIGURED" \in DOMAIN env
HasBash(log) == \E i \in 1..Len(log) : log[i].argv[1] = "bash"

\* C1: in a wrapper call the lookup which <cmd[0]> is spawned before the
\* command; when the lookup exits non-zero the call raises
\* FreeSurferConfigurationError with a message naming cmd[0] and the command
\* is not spawned.
Thm_C1_LookupFirst ==
    IsWrapperCall =>
        LET cmd == wrapper[1].cmd
        IN /\ spawned # <<>> =>
                 spawned[1].argv = <<"which", cmd[1]>>
           /\ \A i \in 1..Len(spawned) :
                 spawned[i].argv = cmd => i > 1
           /\ (spawned # <<>> /\ spawned[1].returncode # 0) =>
                 /\ Len(spawned) = 1
                 /\ raised = Some([type |-> "FreeSurferConfigurationError",
                                   message |-> "FreeSurfer command '"
                                       \o cmd[1] \o "' not found."])

\* a wrapper call whose lookup failed
Wit_C1_LookupFailed ==
    /\ IsWrapperCall
    /\ Len(spawned) = 1
    /\ spawned[1].argv = <<"which", "recon-all">>
    /\ spawned[1].returncode = 1
    /\ raised # None

\* C2: when the lookup succeeded, the call raises FreeSurferRuntimeError if
\* and only if the command exits non-zero, the error carrying the command
\* name, its arguments and stderr followed by stdout; with exit code zero
\* nothing is raised.
Thm_C2_RuntimeErrorIffNonZero ==
    (IsWrapperCall /\ spawned # <<>> /\ spawned[1].returncode = 0) =>
        LET w == wrapper[1]
        IN /\ Len(spawned) = 2
           /\ spawned[2].argv = w.cmd
           /\ spawned[2].returncode = 0 => raised = None
           /\ spawned[2].returncode # 0 =>
                 raised = Some([type |-> "FreeSurferRuntimeError",
                                message |->
                                    "FreeSurfer call for '" \o w.cmd[1]
                                    \o "' failed, with parameters: '"
                                    \o str_join(Tail(w.cmd))
                                    \o "'.Error:: "
                                    \o w.stderr[1] \o w.stdout[1] \o "."])

\* a wrapper call whose command exited with code 1
Wit_C2_CommandFailed ==
    /\ IsWrapperCall
    /\ Len(spawned) = 2
    /\ spawned[2].argv = <<"recon-all", "-all">>
    /\ spawned[2].returncode = 1
    /\ raised # None /\ raised[1].type = "FreeSurferRuntimeError"

\* C6: once FREESURFER_CONFIGURED is set, a later construction does not
\* spawn the parsing subshell, leaves the variable as it is, and gets as its
\* base environment the mapping that was stored.
Thm_C6_ConfiguredOnce ==
    [][Configured(os_environ) =>
          /\ Configured(os_environ')
          /\ os_environ'["FREESURFER_CONFIGURED"]
                 = os_environ["FREESURFER_CONFIGURED"]
          /\ ~HasBash(spawned')
          /\ base_env' = base_env]_vars

\* a second construction that completed without spawning any process
Wit_C6_SecondConstruction ==
    /\ IsConstruction /\ nops = 2 /\ raised = None
    /\ spawned = <<>>
    /\ Configured(os_environ)
    /\ call[1].args.shfile = FS5
    /\ base_env = Some(ScriptExports[FS6])

Thm_C11_SubshellFailure ==
    [][(/\ IsConstruction' /\ nops' = nops + 1
        /\ \E i \in 1..Len(spawned') :
              /\ spawned'[i].argv[1] = "bash"
              /\ spawned'[i].returncode # 0) =>
          /\ raised' # None
          /\ raised'[1].type = "Exception"
          /\ raised'[1].message
                 = "Could not parse 'sh_file' "
                   \o shell(call'[1].args.shfile, <<>>).stderr
                   \o ". Maybe you should check if all the dependencies "
                   \o "are installed"
          /\ wrapper' = wrapper
          /\ base_env' = base_env
          /\ ~Configured(os_environ')]_vars

\* a construction whose subshell printed a variable and then failed
Wit_C11_BrokenScript ==
    /\ IsConstruction /\ call[1].args.shfile = BROKEN
    /\ Len(spawned) = 1 /\ spawned[1].argv[1] = "bash"
    /\ spawned[1].returncode = 1
    /\ "FREESURFER_HOME" \in DOMAIN spawned[1].env
    /\ raised # None /\ raised[1].type = "Exception"
    /\ ~Configured(os_environ)

Claim_C20_EnvironmentOfOwnScript ==
    (IsConstruction /\ raised = None) =>
        \A k \in DOMAIN ScriptExports[call[1].args.shfile] :
            /\ k \in DOMAIN base_env[1]
            /\ base_env[1][k] = ScriptExports[call[1].args.shfile][k]

\* C21: a wrapper built without a subjects_dir argument in a process whose
\* environment holds a SUBJECTS_DIR (left there by an earlier function) has
\* that directory as its SUBJECTS_DIR, whatever the configuration script and
\* the env argument define, and the processes of its call are started with
\* the environment of the wrapper.
Thm_C21_LeftoverSubjectsDir ==
    /\ (/\ IsConstruction /\ raised = None
        /\ call[1].args.subjects_dir = None
        /\ "SUBJECTS_DIR" \in DOMAIN os_environ) =>
           /\ "SUBJECTS_DIR" \in DOMAIN wrapper[1].environment
           /\ wrapper[1].environment["SUBJECTS_DIR"]
                  = os_environ["SUBJECTS_DIR"]
    /\ (IsWrapperCall /\ wrapper # None) =>
           \A i \in 1..Len(spawned) :
               spawned[i].env = wrapper[1].environment

\* the command ran with the directory left in the process although the
\* configuration script exports another one
Wit_C21_ScriptOverridden ==
    /\ IsWrapperCall
    /\ Len(spawned) = 2
    /\ spawned[2].argv[1] = "recon-all"
    /\ "SUBJECTS_DIR" \in DOMAIN os_environ
    /\ os_environ["SUBJECTS_DIR"] = "/proc/subjects"
    /\ spawned[2].env["SUBJECTS_DIR"] = "/proc/subjects"
    /\ "SUBJECTS_DIR" \in DOMAIN base_env[1]
    /\ base_env[1]["SUBJECTS_DIR"] = "/fs6/subjects"

\* C25: the SUBJECTS_DIR of a wrapper that was built is its subjects_dir
\* argument when given; otherwise the SUBJECTS_DIR of the process environment
\* when set; otherwise what the configured environment merged with the env
\* argument gives, absent when neither defines it.  The first two replace
\* the merged value and are not joined to it.
Thm_C25_SubjectsDirPrecedence ==
    (IsConstruction /\ raised = None) =>
        LET a == call[1].args
            e == wrapper[1].environment
            has(m) == "SUBJECTS_DIR" \in DOMAIN m
            envarg == IF a.env # None THEN a.env[1] ELSE <<>>
            script == base_env[1]
        IN IF a.subjects_dir # None
           THEN has(e) /\ e["SUBJECTS_DIR"] = a.subjects_dir[1]
           ELSE IF has(os_environ)
           THEN has(e) /\ e["SUBJECTS_DIR"] = os_environ["SUBJECTS_DIR"]
           ELSE IF has(script) /\ has(envarg)
           THEN /\ has(e)
                /\ e["SUBJECTS_DIR"]
                       = IF script["SUBJECTS_DIR"] = envarg["SUBJECTS_DIR"]
                         THEN script["SUBJECTS_DIR"]
                         ELSE script["SUBJECTS_DIR"] \o ":"
                                  \o envarg["SUBJECTS_DIR"]
           ELSE IF has(script)
           THEN has(e) /\ e["SUBJECTS_DIR"] = script["SUBJECTS_DIR"]
           ELSE IF has(envarg)
           THEN has(e) /\ e["SUBJECTS_DIR"] = envarg["SUBJECTS_DIR"]
           ELSE ~has(e)

\* a wrapper built with the argument in a process that has a SUBJECTS_DIR,
\* from a script and an env argument that each define one
Wit_C25_ArgumentOverAll ==
    /\ IsConstruction /\ raised = None
    /\ call[1].args.subjects_dir = Some("/arg/subjects")
    /\ call[1].args.env # None
    /\ call[1].args.shfile = FS6
    /\ "SUBJECTS_DIR" \in DOMAIN os_environ
    /\ wrapper[1].environment["SUBJECTS_DIR"] = "/arg/subjects"

----------------------------------------------------------------------------
(* Claims on the domain functions *)

IsCallOf(fns) == call # None /\ call[1].fn \in fns
RaisedValueError == raised # None /\ raised[1].type = "ValueError"

\* C3: in a function that runs several commands, the first command whose
\* lookup or execution fails makes the function raise at once: the failed
\* process is the last one the function spawns, so the command is not run a
\* second time and no later command of the sequence is run.
Thm_C3_AbortAtFirstFailure ==
    IsCallOf({"midgray_surface", "interhemi_surfreg",
              "resample_cortical_surface", "recon_all_longitudinal",
              "aparcstats2table"}) =>
        \A i \in 1..Len(spawned) :
            spawned[i].returncode # 0 =>
                /\ i = Len(spawned)
                /\ raised # None
                /\ raised[1].type \in {"FreeSurferConfigurationError",
                                       "FreeSurferRuntimeError", "Exception"}
                /\ frame = None
                /\ result = None

\* interhemi_surfreg whose second command failed after the first one ran
Wit_C3_SecondCommandFailed ==
    /\ IsCallOf({"interhemi_surfreg"})
    /\ spawned # <<>>
    /\ spawned[Len(spawned)].argv = <<"xhemireg", "--s", "surfreg">>
    /\ spawned[Len(spawned)].returncode = 1
    /\ \E i \in 1..Len(spawned) :
          spawned[i].argv[1] = "surfreg" /\ spawned[i].returncode = 0
    /\ raised # None /\ raised[1].type = "FreeSurferRuntimeError"
    /\ frame = None

\* C8: mri_surf2surf, mri_vol2surf, interhemi_surfreg and midgray_surface
\* called with a hemisphere other than lh and rh raise ValueError and spawn
\* no process.
Thm_C8_BadHemisphere ==
    (/\ IsCallOf({"mri_surf2surf", "mri_vol2surf", "interhemi_surfreg",
                  "midgray_surface"})
     /\ call[1].args.hemi \notin {"lh", "rh"}) =>
        /\ RaisedValueError
        /\ spawned = <<>>
        /\ frame = None
        /\ result = None

\* mri_surf2surf with hemisphere xx and every other input valid
Wit_C8_OnlyHemisphereBad ==
    /\ IsCallOf({"mri_surf2surf"})
    /\ call[1].args.hemi = "xx"
    /\ call[1].args.input_isfile /\ call[1].args.fsdir_isdir
    /\ call[1].args.ico_order = 3
    /\ raised = bad_hemi("xx")
    /\ spawned = <<>>

\* C9: mri_surf2surf and mri_vol2surf called with an order below 0 or above
\* 7, and resample_cortical_surface called with a list holding such an
\* order, raise ValueError and spawn no process.
Thm_C9_BadIcoOrder ==
    (\/ /\ IsCallOf({"mri_surf2surf", "mri_vol2surf"})
        /\ (call[1].args.ico_order < 0 \/ call[1].args.ico_order > 7)
     \/ /\ IsCallOf({"resample_cortical_surface"})
        /\ \E i \in 1..Len(call[1].args.orders) :
              \/ call[1].args.orders[i] < 0
              \/ call[1].args.orders[i] > 7) =>
        /\ RaisedValueError
        /\ spawned = <<>>
        /\ frame = None
        /\ result = None

\* mri_surf2surf with order 8 and every other input valid
Wit_C9_OnlyOrderBad ==
    /\ IsCallOf({"mri_surf2surf"})
    /\ call[1].args.ico_order = 8
    /\ call[1].args.hemi = "lh"
    /\ call[1].args.input_isfile /\ call[1].args.fsdir_isdir
    /\ raised = bad_ico(8)
    /\ spawned = <<>>

\* C13 as stated: when aparcstats2table, asegstats2table or
\* tractstats2table has returned, SUBJECTS_DIR is as it was when the
\* function was called: the same value if it was set, absent if it was
\* absent.
Claim_C13_SubjectsDirRestored ==
    (/\ IsCallOf({"aparcstats2table", "asegstats2table",
                  "tractstats2table"})
     /\ result # None) =>
        IF "SUBJECTS_DIR" \in DOMAIN call[1].environ
        THEN /\ "SUBJECTS_DIR" \in DOMAIN os_environ
             /\ os_environ["SUBJECTS_DIR"]
                    = call[1].environ["SUBJECTS_DIR"]
        ELSE "SUBJECTS_DIR" \notin DOMAIN os_environ

\* C14: slice_aparc_overlay never restores SUBJECTS_DIR.  When its checks
\* (cut axis, subject directory, output directory, T1 file) have passed,
\* SUBJECTS_DIR is the fsdir argument while the commands run and on every
\* exit of the call, by return or by exception, whatever it was before;
\* when a check fails the call raises and os.environ is as it was.
Thm_C14_SubjectsDirNeverRestored ==
    IsCallOf({"slice_aparc_overlay"}) =>
        LET a == call[1].args
            passed == /\ a.cut_axis \in DOMAIN AXIS_MAP
                      /\ a.subjdir_isdir
                      /\ (a.outdir_isdir => a.erase)
                      /\ a.anat_isfile
        IN IF passed
           THEN /\ "SUBJECTS_DIR" \in DOMAIN os_environ
                /\ os_environ["SUBJECTS_DIR"] = a.fsdir
           ELSE /\ raised # None /\ frame = None
                /\ os_environ = call[1].environ

\* slice_aparc_overlay returned its two slices in a process whose
\* SUBJECTS_DIR was another directory, and left fsdir there
Wit_C14_ReturnedWithFsdir ==
    /\ IsCallOf({"slice_aparc_overlay"})
    /\ result = Some(<<"/out/slice-C-0.png", "/out/slice-C-1.png">>)
    /\ "SUBJECTS_DIR" \in DOMAIN call[1].environ
    /\ call[1].environ["SUBJECTS_DIR"] = "/proc/subjects"
    /\ os_environ["SUBJECTS_DIR"] = "/subjects"

\* the subshell that FSWrapper._environment spawns for the script shfile in
\* a process whose os.environ is environ
Subshell(shfile, environ) ==
    [argv |-> <<"bash", "-c", ". '" \o shfile \o "' ; /usr/bin/printenv">>,
     env |-> IF "FREESURFER_HOME" \in DOMAIN environ
             THEN [FREESURFER_HOME |-> environ["FREESURFER_HOME"]]
             ELSE <<>>,
     returncode |-> 0]

\* C15 as stated: when mri_surf2surf has returned it has spawned exactly two
\* processes, which mri_surf2surf and then the mri_surf2surf command, both
\* with the wrapper's environment.
Claim_C15_TwoProcesses ==
    (IsCallOf({"mri_surf2surf"}) /\ result # None) =>
        LET a == call[1].args
        IN /\ Len(spawned) = 2
           /\ spawned[1].argv = <<"which", "mri_surf2surf">>
           /\ spawned[2].argv
                  = <<"mri_surf2surf", "--hemi", a.hemi, "--srcsurfval",
                      a.input_surface_file, "--srcsubject", a.sid,
                      "--trgsubject", "ico", "--trgicoorder",
                      str(a.ico_order), "--trgsurfval",
                      a.output_surface_file, "--sd", a.fsdir, "--trg_type",
                      "mgz">>
           /\ spawned[1].env = wrapper[1].environment
           /\ spawned[2].env = wrapper[1].environment

\* C15 amended: when mri_surf2surf has returned, the processes it spawned
\* are which mri_surf2surf and then the mri_surf2surf command, both with the
\* wrapper's environment and exit code zero, preceded by the subshell that
\* sources the configuration script exactly when FREESURFER_CONFIGURED was
\* not set at the call: two processes, or three.
Thm_C15_LookupThenCommand ==
    (IsCallOf({"mri_surf2surf"}) /\ result # None) =>
        LET a == call[1].args
            lookup == [argv |-> <<"which", "mri_surf2surf">>,
                       env |-> wrapper[1].environment, returncode |-> 0]
            command ==
                [argv |-> <<"mri_surf2surf", "--hemi", a.hemi,
                            "--srcsurfval", a.input_surface_file,
                            "--srcsubject", a.sid, "--trgsubject", "ico",
                            "--trgicoorder", str(a.ico_order),
                            "--trgsurfval", a.output_surface_file, "--sd",
                            a.fsdir, "--trg_type", "mgz">>,
                 env |-> wrapper[1].environment, returncode |-> 0]
        IN spawned = IF Configured(call[1].environ)
                     THEN <<lookup, command>>
                     ELSE <<Subshell(a.fsconfig, call[1].environ), lookup,
                            command>>

\* mri_surf2surf returned in a process that was not configured: the
\* subshell was spawned before the lookup and the command
Wit_C15_SubshellFirst ==
    /\ IsCallOf({"mri_surf2surf"}) /\ result # None
    /\ ~Configured(call[1].environ)
    /\ Len(spawned) = 3
    /\ spawned[1].argv[1] = "bash"
    /\ spawned[3].argv[1] = "mri_surf2surf"

\* C16 as stated: the argument vector of the wrapper that recon_all builds
\* holds "-T2", t2file, "-T2pial" when t2file is given and "-FLAIR",
\* flairfile, "-FLAIRpial" when flairfile is given.
Claim_C16_OptionalImagesUsed ==
    (IsCallOf({"recon_all"}) /\ wrapper # None) =>
        LET a == call[1].args
            cmd == wrapper[1].cmd
            holds(three) ==
                \E i \in 1..(Len(cmd) - 2) : SubSeq(cmd, i, i + 2) = three
        IN /\ a.t2file # None => holds(<<"-T2", a.t2file[1], "-T2pial">>)
           /\ a.flairfile # None =>
                  holds(<<"-FLAIR", a.flairfile[1], "-FLAIRpial">>)

\* the processes of a recon_all_longitudinal call with the arguments a that
\* runs to its end: a lookup before each command, the template command
\* first, then one -long command per timepoint in the order of the
\* timepoints
LongitudinalProcesses(a) ==
    LET tps == IF a.timepoints = None
               THEN [i \in 1..Len(a.subjects_dirs) |-> str(i)]
               ELSE a.timepoints[1]
        template == a.subject_id \o "_template_" \o underscore_join(tps)
        tp_id(i) == a.subject_id \o "_" \o tps[i]
        base == <<"recon-all", "-base", template>>
                \o tp_args([i \in 1..Len(tps) |-> tp_id(i)]) \o <<"-all">>
        long(i) == <<"recon-all", "-long", tp_id(i), template, "-all">>
    IN [j \in 1..(2 * (1 + Len(tps))) |->
           IF j % 2 = 1 THEN <<"which", "recon-all">>
           ELSE IF j = 2 THEN base ELSE long((j \div 2) - 1)]

\* the value a recon_all_longitudinal call with the arguments a returns
LongitudinalIds(a) ==
    LET tps == IF a.timepoints = None
               THEN [i \in 1..Len(a.subjects_dirs) |-> str(i)]
               ELSE a.timepoints[1]
        template == a.subject_id \o "_template_" \o underscore_join(tps)
    IN <<template,
         [i \in 1..Len(tps) |->
             a.subject_id \o "_" \o tps[i] \o ".long." \o template]>>

\* C17 as stated: when recon_all_longitudinal has returned, the processes
\* it spawned are the 2(1 + n) lookups and commands, template first and
\* then the timepoints in order, and it returns the n long ids in timepoint
\* order.
Claim_C17_TemplateThenTimepoints ==
    (IsCallOf({"recon_all_longitudinal"}) /\ result # None) =>
        /\ [j \in 1..Len(spawned) |-> spawned[j].argv]
               = LongitudinalProcesses(call[1].args)
        /\ result = Some(LongitudinalIds(call[1].args))

\* C17 amended: at every moment of a recon_all_longitudinal call the
\* processes spawned so far are the first ones of: the subshell that sources
\* the configuration script (exactly when FREESURFER_CONFIGURED was not set
\* at the call), then lookup and template command, then lookup and -long
\* command for each timepoint in order; every process but the last has
\* exited with code zero, so no command runs unless all before it
\* succeeded.  When the call has returned all of them were spawned and
\* exited with code zero, 2(1 + n) processes or one more, and the value is
\* the template id and the n long ids in timepoint order.
Thm_C17_TemplateThenTimepoints ==
    IsCallOf({"recon_all_longitudinal"}) =>
        LET a == call[1].args
            skip == IF Configured(call[1].environ) THEN 0 ELSE 1
            log == SubSeq(spawned, skip + 1, Len(spawned))
            expected == LongitudinalProcesses(a)
        IN /\ Len(log) <= Len(expected)
           /\ \A j \in 1..Len(log) : log[j].argv = expected[j]
           /\ (skip = 1 /\ spawned # <<>>) =>
                  spawned[1] = [Subshell(a.fsconfig, call[1].environ)
                                    EXCEPT !.returncode
                                               = spawned[1].returncode]
           /\ \A j \in 1..(Len(spawned) - 1) : spawned[j].returncode = 0
           /\ result # None =>
                  /\ Len(log) = Len(expected)
                  /\ spawned[Len(spawned)].returncode = 0
                  /\ result = Some(LongitudinalIds(a))

\* recon_all_longitudinal returned for two named timepoints in a process
\* that was not configured: seven processes
Wit_C17_TwoTimepoints ==
    /\ IsCallOf({"recon_all_longitudinal"}) /\ result # None
    /\ call[1].args.timepoints = Some(<<"a", "b">>)
    /\ ~Configured(call[1].environ)
    /\ Len(spawned) = 7
    /\ result[1][2] = <<"s1_a.long.s1_template_a_b",
                        "s1_b.long.s1_template_a_b">>

\* C18 as stated: when aparcstats2table has returned it has spawned exactly
\* 32 processes, a lookup before each of 16 aparcstats2table commands, and
\* returns exactly the 16 paths aparc_stats_<hemi>_<meas>.csv, by
\* hemisphere (lh, rh) and then by measure.
Claim_C18_SixteenTables ==
    (IsCallOf({"aparcstats2table"}) /\ result # None) =>
        LET a == call[1].args
            n == Len(APARC_MEASURES)
            table(i) ==
                join(join(a.outdir, "stats"),
                     "aparc_stats_" \o APARC_HEMIS[((i - 1) \div n) + 1]
                         \o "_" \o APARC_MEASURES[((i - 1) % n) + 1]
                         \o ".csv")
        IN /\ Len(spawned) = 32
           /\ \A j \in 1..Len(spawned) :
                  spawned[j].argv[1]
                      = IF j % 2 = 1 THEN "which" ELSE "aparcstats2table"
           /\ result = Some([i \in 1..16 |-> table(i)])

\* C22: when a command of aparcstats2table, asegstats2table or
\* tractstats2table fails, the exception leaves the function with
\* SUBJECTS_DIR equal to the fsdir argument: the value saved at the start of
\* the call is not put back.
Thm_C22_NotRestoredOnFailure ==
    (/\ IsCallOf({"aparcstats2table", "asegstats2table", "tractstats2table"})
     /\ raised # None
     /\ spawned # <<>>) =>
        /\ "SUBJECTS_DIR" \in DOMAIN os_environ
        /\ os_environ["SUBJECTS_DIR"] = call[1].args.fsdir

\* a command of asegstats2table exited with a non-zero code in a process
\* whose SUBJECTS_DIR was another directory than fsdir
Wit_C22_FailedWithFsdir ==
    /\ IsCallOf({"asegstats2table"})
    /\ raised # None /\ raised[1].type = "FreeSurferRuntimeError"
    /\ "SUBJECTS_DIR" \in DOMAIN call[1].environ
    /\ call[1].environ["SUBJECTS_DIR"] = "/proc/subjects"
    /\ os_environ["SUBJECTS_DIR"] = "/subjects"

\* the processes of the running call that belong to the command name: its
\* lookup and the command itself
Ran(name) ==
    {i \in 1..Len(spawned) :
        \/ spawned[i].argv[1] = name
        \/ spawned[i].argv = <<"which", name>>}

\* the runs of the command name that exited with code zero
Done(name) ==
    {i \in 1..Len(spawned) :
        spawned[i].argv[1] = name /\ spawned[i].returncode = 0}

\* C26: recon_all_custom_wm_mask runs mris_calc, moves wm.seg.mgz to
\* wm.seg.orig.mgz (when keep_orig), runs mri_convert, removes the temporary
\* directory and runs recon-all, in this order, and recovers nothing: when
\* mri_convert fails the function raises with wm.seg.orig.mgz in place of
\* wm.seg.mgz, the temporary directory still there and no recon-all process.
Thm_C26_NoRecovery ==
    (IsCallOf({"recon_all_custom_wm_mask"}) /\ spawned # <<>>) =>
        LET a == call[1].args
            subjects_dir == IF a.subjects_dir # None THEN a.subjects_dir[1]
                            ELSE call[1].environ["SUBJECTS_DIR"]
            mri == join(join(subjects_dir, a.subject_id), "mri")
            wm_seg == [dir |-> mri, name |-> "wm.seg.mgz"]
            save_as == [dir |-> mri, name |-> "wm.seg.orig.mgz"]
            convert_failed == /\ raised # None
                              /\ Ran("mri_convert") # {}
                              /\ Done("mri_convert") = {}
        IN /\ \A i \in Ran("mri_convert") :
                 \E j \in Done("mris_calc") : j < i
           /\ \A i \in Ran("recon-all") :
                 \E j \in Done("mri_convert") : j < i
           /\ (Ran("mri_convert") # {} /\ a.keep_orig) =>
                  save_as \in fsfiles
           /\ Ran("recon-all") # {} => TempDir \notin fsfiles
           /\ convert_failed =>
                  /\ frame = None
                  /\ TempDir \in fsfiles
                  /\ Ran("recon-all") = {}
                  /\ a.keep_orig =>
                         wm_seg \notin fsfiles /\ save_as \in fsfiles

\* mri_convert exited with a non-zero code after the move of the original
\* wm.seg.mgz
Wit_C26_ConvertFailed ==
    /\ IsCallOf({"recon_all_custom_wm_mask"})
    /\ call[1].args.keep_orig
    /\ raised # None /\ raised[1].type = "FreeSurferRuntimeError"
    /\ spawned # <<>>
    /\ spawned[Len(spawned)].argv[1] = "mri_convert"
    /\ [dir |-> "/subjects/s1/mri", name |-> "wm.seg.orig.mgz"] \in fsfiles
    /\ [dir |-> "/subjects/s1/mri", name |-> "wm.seg.mgz"] \notin fsfiles
    /\ TempDir \in fsfiles

\* C27 as stated: when interhemi_surfreg returns, the symbolic links are
\* those that existed before the call.
Claim_C27_LinksAsFound ==
    (IsCallOf({"interhemi_surfreg"}) /\ result # None) =>
        links = call[1].links

\* C28 as stated: however a call of mkpreproc_sess or mkmodel_sess ends,
\* the working directory is then the one the call started in.
Claim_C28_WorkingDirectoryRestored ==
    (IsCallOf({"mkpreproc_sess", "mkmodel_sess"}) /\ frame = None) =>
        cwd = call[1].cwd

----------------------------------------------------------------------------
(* Claims on TriSurface *)

\* C19 as stated: every TriSurface that the constructor or TriSurface.load
\* returns satisfies the mesh invariant: each index of each triangle is the
\* index of a vertex, and inflated vertices come with the triangles of the
\* base mesh, so that each index is the index of an inflated vertex too
\* and, after load, the inflated file holds exactly the triangles of the
\* mesh file.
Claim_C19_MeshInvariant ==
    (call # None /\ call[1].fn \in {"TriSurface", "TriSurface.load"}
        /\ result # None) =>
        LET surf == result[1]
            indexed(vertices) ==
                \A i \in 1..Len(surf.triangles) : \A k \in 1..3 :
                    /\ 0 <= surf.triangles[i][k]
                    /\ surf.triangles[i][k] < Len(vertices)
        IN /\ indexed(surf.vertices)
           /\ surf.inflated_vertices # None =>
                  /\ indexed(surf.inflated_vertices[1])
                  /\ call[1].fn = "TriSurface.load" =>
                         call[1].args.inflated[1].triangles
                             = surf.triangles

----------------------------------------------------------------------------
(* Claims on concat_environment *)

\* C4: after concat_environment(env1, env2) the returned dict has exactly the
\* keys of env1 united with the keys of env2; a key of both has the value
\* env1[key] + ":" + env2[key] when the two values differ and the common
\* value when they are equal; a key of one dict only has that dict's value.
Thm_C4_ConcatKeysValues ==
    ncalls > 0 =>
        LET e1 == before["env1"]
            e2 == before["env2"]
            res == heap[concat_ret[1]]
        IN /\ DOMAIN res = DOMAIN e1 \cup DOMAIN e2
           /\ \A k \in DOMAIN e1 \cap DOMAIN e2 :
                 res[k] = IF e1[k] # e2[k] THEN e1[k] \o ":" \o e2[k]
                                           ELSE e1[k]
           /\ \A k \in DOMAIN e1 \ DOMAIN e2 : res[k] = e1[k]
           /\ \A k \in DOMAIN e2 \ DOMAIN e1 : res[k] = e2[k]

\* a first call that met a key of both dicts with different values and a key
\* of env1 only
Wit_C4_SharedAndOwnKeys ==
    /\ ncalls = 1
    /\ DOMAIN before["env1"] = {"PATH", "LANG"}
    /\ DOMAIN before["env2"] = {"PATH"}
    /\ before["env1"]["PATH"] = "a"
    /\ before["env2"]["PATH"] = ":a"
    /\ heap["env1"]["PATH"] = "a::a"

\* C5 as stated: the two groupings of three merges give the same mapping.
Claim_C5_Associative ==
    (lhs.stage = 2 /\ rhs.stage = 2) => lhs.val = rhs.val

\* the keys on which the two groupings agree: a key missing from one of the
\* three mappings, or whose values x, y, z are all equal, or such that
\* x # y, y # z, z # x:y and x # y:z
AssocAgree(k) ==
    \/ \E n \in {"a", "b", "c"} : k \notin DOMAIN abc[n]
    \/ LET x == abc.a[k]
           y == abc.b[k]
           z == abc.c[k]
       IN \/ x = y /\ y = z
          \/ /\ x # y /\ y # z
             /\ z # x \o ":" \o y
             /\ x # y \o ":" \o z

\* C5 amended: the two groupings have the same keys, and give a key the same
\* value exactly when AssocAgree holds of it.
Thm_C5_AssociativeOnKeys ==
    (lhs.stage = 2 /\ rhs.stage = 2) =>
        /\ DOMAIN lhs.val = DOMAIN rhs.val
        /\ \A k \in DOMAIN lhs.val :
              (lhs.val[k] = rhs.val[k]) <=> AssocAgree(k)

\* both groupings done on three mappings that all define PATH, with two
\* equal values and a third one: the groupings give a:: and a:a::
Wit_C5_EqualThenDifferent ==
    /\ lhs.stage = 2 /\ rhs.stage = 2
    /\ \A n \in {"a", "b", "c"} : "PATH" \in DOMAIN abc[n]
    /\ abc.a["PATH"] = "a" /\ abc.b["PATH"] = "a" /\ abc.c["PATH"] = ":"
    /\ lhs.val["PATH"] = "a::" /\ rhs.val["PATH"] = "a:a::"

\* C23: concat_environment(env1, env2) returns the dict object passed as
\* env1, which holds the merged content after the call (the keys of both
\* dicts), and leaves the dict object env2 as it was.
Thm_C23_InPlaceOnEnv1 ==
    ncalls > 0 =>
        /\ concat_ret = Some("env1")
        /\ DOMAIN heap = DOMAIN before
        /\ DOMAIN heap["env1"]
               = DOMAIN before["env1"] \cup DOMAIN before["env2"]
        /\ heap["env2"] = before["env2"]

\* a call that changed the object env1: a key of env2 was added to it and a
\* value of env2 was joined to one of its values
Wit_C23_Env1Updated ==
    /\ ncalls = 1
    /\ concat_ret = Some("env1")
    /\ before["env1"] = ("PATH" :> "a")
    /\ before["env2"] = ("PATH" :> ":") @@ ("LANG" :> "a")
    /\ heap["env1"] = ("PATH" :> "a::") @@ ("LANG" :> "a")
    /\ heap["env2"] = before["env2"]

\* C24 as stated: merging env2 into the result of a first merge with env2
\* changes nothing.
Claim_C24_Idempotent ==
    ncalls = 2 => heap["env1"] = before["env1"]

\* C24 amended: after the first merge the result differs from env2 exactly
\* on the keys of env2 that env1 defined with another value; the second
\* merge of env2 keeps the keys, appends ":" and the value of env2 once more
\* to each of these keys, and changes no other key.
Thm_C24_GrowsOnDifferentValues ==
    /\ ncalls = 1 =>
           \A k \in DOMAIN heap["env2"] :
               (heap["env1"][k] # heap["env2"][k])
                   <=> (/\ k \in DOMAIN before["env1"]
                        /\ before["env1"][k] # before["env2"][k])
    /\ ncalls = 2 =>
           /\ DOMAIN heap["env1"] = DOMAIN before["env1"]
           /\ \A k \in DOMAIN heap["env1"] :
                 heap["env1"][k]
                     = IF /\ k \in DOMAIN before["env2"]
                          /\ before["env1"][k] # before["env2"][k]
                       THEN before["env1"][k] \o ":" \o before["env2"][k]
                       ELSE before["env1"][k]

\* the second merge of PATH=: into a mapping that had PATH=a: the first gave
\* a:: and the second a::::
Wit_C24_PathGrows ==
    /\ ncalls = 2
    /\ heap["env2"] = ("PATH" :> ":")
    /\ before["env1"] = ("PATH" :> "a::")
    /\ heap["env1"] = ("PATH" :> "a::::")

----------------------------------------------------------------------------
(* Claims on environment *)

====
